---- MODULE Spec2Model ----
(***************************************************************************)
(* Model of the task automation engine of conviso-cli                      *)
(* (src/src/conviso/commands/tasks.py): recipe validation, the approval    *)
(* gate, command execution and the action dispatcher.                      *)
(***************************************************************************)
EXTENDS Integers, Sequences, FiniteSets, TLC

(***************************************************************************)
(* Bounds                                                                  *)
(***************************************************************************)
MaxLines == 3
MaxIndent == 2

(***************************************************************************)
(* Recipe texts.  A text is a sequence of lines; a line is its indentation *)
(* and one of the shapes                                                   *)
(*   "steps"  steps:          "name"   name: t                             *)
(*   "item"   - id: a         "sitem"  - foo          "blank"  (empty)     *)
(*   "nosteps" steps: []      "titem"  - id: a  after one tab character     *)
(***************************************************************************)
ItemKinds == {"item", "sitem"}
KeyKinds == {"steps", "name", "nosteps"}

LineSet ==
  {[ind |-> n, kind |-> k] : n \in 0..MaxIndent, k \in ItemKinds \cup KeyKinds}
    \cup {[ind |-> 0, kind |-> "blank"], [ind |-> 1, kind |-> "titem"]}

Texts == UNION {[1..n -> LineSet] : n \in 0..MaxLines}

RECURSIVE DropBlank(_)
DropBlank(L) ==
  IF L = <<>> THEN <<>>
  ELSE IF Head(L).kind = "blank" THEN DropBlank(Tail(L))
  ELSE <<Head(L)>> \o DropBlank(Tail(L))

\* _clean_description: runs of newlines collapse to one newline and the text
\* is stripped, so no empty line survives and the first line starts at column 0.
CleanDescription(desc) ==
  LET t == DropBlank(desc)
  IN IF t = <<>> THEN <<>>
     ELSE [k \in 1..Len(t) |->
             IF k > 1 THEN t[k]
             ELSE IF t[k].kind = "titem" THEN [ind |-> 0, kind |-> "item"]
             ELSE [t[k] EXCEPT !.ind = 0]]

\* _normalize_yaml_steps: after the first "steps:" line, list items indented by
\* less than two columns (or by a tab) are re-indented to two spaces, up to
\* the first line at column 0 that is not a list item.
StepIdx(L) ==
  IF \E k \in 1..Len(L) : L[k].kind = "steps"
  THEN CHOOSE k \in 1..Len(L) :
         L[k].kind = "steps" /\ \A j \in 1..(k-1) : L[j].kind # "steps"
  ELSE 0

NormalizeStop(L, s) ==
  IF \E k \in (s+1)..Len(L) : L[k].ind = 0 /\ L[k].kind \notin ItemKinds
  THEN CHOOSE k \in (s+1)..Len(L) :
         /\ L[k].ind = 0 /\ L[k].kind \notin ItemKinds
         /\ \A j \in (s+1)..(k-1) : ~(L[j].ind = 0 /\ L[j].kind \notin ItemKinds)
  ELSE Len(L) + 1

NormalizeYamlSteps(L) ==
  LET s == StepIdx(L)
  IN IF s = 0 THEN L
     ELSE LET stop == NormalizeStop(L, s)
          IN [k \in 1..Len(L) |->
                IF k > s /\ k < stop /\ L[k].kind = "titem"
                THEN [ind |-> 2, kind |-> "item"]
                ELSE IF k > s /\ k < stop /\ L[k].kind \in ItemKinds /\ L[k].ind < 2
                THEN [L[k] EXCEPT !.ind = 2]
                ELSE L[k]]

(***************************************************************************)
(* yaml.safe_load on this fragment of block YAML.  A result carries the    *)
(* type of the document ("map", "seq", "null"), the item types of a        *)
(* sequence, and for a mapping its "steps" entry (last occurrence wins).   *)
(***************************************************************************)
NoSteps == [has |-> FALSE, stag |-> "null", sitems |-> <<>>]

ParseErr ==
  [ok |-> FALSE, next |-> 0, tag |-> "null", items |-> <<>>,
   has |-> FALSE, stag |-> "null", sitems |-> <<>>]

ParseOk(next, tag, items, acc) ==
  [ok |-> TRUE, next |-> next, tag |-> tag, items |-> items,
   has |-> acc.has, stag |-> acc.stag, sitems |-> acc.sitems]

\* A plain scalar continues over the following lines that are indented deeper
\* than its block; a continuation line holding ": " is a scanner error.
\* Returns the index of the first line that is not a continuation, 0 on error.
RECURSIVE FoldPlain(_, _, _)
FoldPlain(L, i, n) ==
  IF i > Len(L) \/ L[i].ind <= n THEN i
  ELSE IF L[i].kind = "sitem" THEN FoldPlain(L, i + 1, n)
  ELSE 0

RECURSIVE ParseMap(_, _, _, _)
RECURSIVE ParseSeq(_, _, _, _, _)

ParseMap(L, i, n, acc) ==
  IF i > Len(L) \/ L[i].ind < n THEN ParseOk(i, "map", <<>>, acc)
  ELSE IF L[i].ind > n \/ L[i].kind \in ItemKinds THEN ParseErr
  ELSE IF L[i].kind = "name" THEN
    LET j == FoldPlain(L, i + 1, n)
    IN IF j = 0 THEN ParseErr ELSE ParseMap(L, j, n, acc)
  ELSE IF L[i].kind = "nosteps" THEN
    IF i + 1 <= Len(L) /\ L[i+1].ind > n THEN ParseErr
    ELSE ParseMap(L, i + 1, n, [has |-> TRUE, stag |-> "seq", sitems |-> <<>>])
  ELSE
    IF \/ i + 1 > Len(L)
       \/ L[i+1].ind < n
       \/ (L[i+1].ind = n /\ L[i+1].kind \in KeyKinds)
    THEN ParseMap(L, i + 1, n, [has |-> TRUE, stag |-> "null", sitems |-> <<>>])
    ELSE LET sub == IF L[i+1].kind \in ItemKinds
                    THEN ParseSeq(L, i + 1, L[i+1].ind, L[i+1].ind = n, <<>>)
                    ELSE ParseMap(L, i + 1, L[i+1].ind, NoSteps)
         IN IF ~sub.ok THEN ParseErr
            ELSE ParseMap(L, sub.next, n,
                          [has |-> TRUE, stag |-> sub.tag, sitems |-> sub.items])

ParseSeq(L, i, c, indentless, items) ==
  IF i > Len(L) \/ L[i].ind < c THEN ParseOk(i, "seq", items, NoSteps)
  ELSE IF L[i].ind > c THEN ParseErr
  ELSE IF L[i].kind \in KeyKinds THEN
    IF indentless THEN ParseOk(i, "seq", items, NoSteps) ELSE ParseErr
  ELSE IF L[i].kind = "sitem" THEN
    LET j == FoldPlain(L, i + 1, c)
    IN IF j = 0 THEN ParseErr
       ELSE ParseSeq(L, j, c, indentless, Append(items, "str"))
  ELSE
    LET j == FoldPlain(L, i + 1, c + 2)
    IN IF j = 0 THEN ParseErr
       ELSE LET sub == ParseMap(L, j, c + 2, NoSteps)
            IN IF ~sub.ok THEN ParseErr
               ELSE ParseSeq(L, sub.next, c, indentless, Append(items, "map"))

SafeLoad(L) ==
  IF L = <<>> THEN ParseOk(1, "null", <<>>, NoSteps)
  ELSE IF \E k \in DOMAIN L : L[k].kind = "titem" THEN ParseErr
  ELSE LET r == IF L[1].kind \in ItemKinds
                THEN ParseSeq(L, 1, L[1].ind, FALSE, <<>>)
                ELSE ParseMap(L, 1, L[1].ind, NoSteps)
       IN IF r.ok /\ r.next = Len(L) + 1 THEN r ELSE ParseErr

IsDict(r) == r.ok /\ r.tag = "map"
StepsIsList(r) == IsDict(r) /\ r.has /\ r.stag = "seq"


(***************************************************************************)
(* _validate_task_yaml                                                     *)
(***************************************************************************)
Invalid(reason) == [ok |-> FALSE, reason |-> reason, steps |-> 0]

\* the answer for a steps list
\* variant: only a list of more than one step is rejected
StepCountResultAtMostOne(steps) ==
  IF Len(steps) > 1
  THEN [ok |-> FALSE, reason |-> "steps=" \o ToString(Len(steps)), steps |-> Len(steps)]
  ELSE [ok |-> TRUE, reason |-> "", steps |-> Len(steps)]
StepCountResult(steps) ==
  IF Len(steps) # 1
  THEN [ok |-> FALSE, reason |-> "steps=" \o ToString(Len(steps)), steps |-> Len(steps)]
  ELSE [ok |-> TRUE, reason |-> "", steps |-> Len(steps)]

\* data is parsed from the cleaned text; the normalized text is parsed when the
\* result is not a mapping, and again when its steps entry is not a list
ValidateTaskYaml(desc) ==
  LET Retry(cleaned, normalized, d) ==
        IF normalized # cleaned THEN SafeLoad(normalized) ELSE d
      Second(cleaned, normalized, d1) ==
        IF IsDict(d1) THEN d1 ELSE Retry(cleaned, normalized, d1)
      Answer(cleaned, d2, d3) ==
        IF cleaned = <<>> THEN Invalid("empty_description")
        ELSE IF ~IsDict(d2) THEN Invalid("invalid_yaml")
        ELSE IF StepsIsList(d2) THEN StepCountResult(d2.sitems)
        ELSE IF StepsIsList(d3) THEN StepCountResult(d3.sitems)
        ELSE Invalid("missing_steps")
      Third(cleaned, normalized, d2) ==
        Answer(cleaned, d2, IF StepsIsList(d2) THEN d2 ELSE Retry(cleaned, normalized, d2))
      Parsed(cleaned, normalized) ==
        Third(cleaned, normalized, Second(cleaned, normalized, SafeLoad(cleaned)))
      Cleaned(cleaned) == Parsed(cleaned, NormalizeYamlSteps(cleaned))
  IN Cleaned(CleanDescription(desc))

\* the calls _validate_task_yaml makes on the way: loads names the texts handed
\* to yaml.safe_load in order, repairs counts the calls of _normalize_yaml_steps
NoWork == [loads |-> <<>>, repairs |-> 0]

ValidateWork(desc) ==
  LET Loaded(cleaned, normalized, w) ==
        [loads |-> IF normalized # cleaned THEN Append(w.loads, "normalized") ELSE w.loads,
         repairs |-> w.repairs + 1]
      Steps(cleaned, normalized, d2, w) ==
        IF ~IsDict(d2) \/ StepsIsList(d2) THEN w ELSE Loaded(cleaned, normalized, w)
      Repaired(cleaned, normalized, d1, w) ==
        Steps(cleaned, normalized,
              IF normalized # cleaned THEN SafeLoad(normalized) ELSE d1, w)
      First(cleaned, normalized, d1, w) ==
        IF IsDict(d1) THEN Steps(cleaned, normalized, d1, w)
        ELSE Repaired(cleaned, normalized, d1, Loaded(cleaned, normalized, w))
      Cleaned(cleaned) ==
        IF cleaned = <<>> THEN NoWork
        ELSE First(cleaned, NormalizeYamlSteps(cleaned), SafeLoad(cleaned),
                   [loads |-> <<"cleaned">>, repairs |-> 0])
  IN Cleaned(CleanDescription(desc))

(***************************************************************************)
(* The recipe loading of run_task (the head of the loop over activities).  *)
(* Outcome "skip": the activity is passed over, "abort": typer.Exit(1),    *)
(* "step": the single step is handed on; step is "map" or "str".           *)
(***************************************************************************)
LoadOutcome(kind, logged, nsteps, step) ==
  [kind |-> kind, logged |-> logged, nsteps |-> nsteps, step |-> step]

RunnerSteps(task_def) ==
  IF task_def.stag = "seq" THEN task_def.sitems ELSE <<>>

RunnerLoad(raw) ==
  LET Answer(desc, d1, task_def, steps) ==
        IF desc = <<>> THEN LoadOutcome("skip", FALSE, 0, "none")
        ELSE IF ~d1.ok \/ ~task_def.ok THEN LoadOutcome("skip", TRUE, 0, "none")
        ELSE IF ~IsDict(task_def) \/ ~task_def.has
             THEN LoadOutcome("skip", TRUE, 0, "none")
        ELSE IF task_def.stag # "seq" \/ steps = <<>>
             THEN LoadOutcome("skip", TRUE, 0, "none")
        ELSE IF Len(steps) # 1 THEN LoadOutcome("abort", TRUE, Len(steps), "none")
        ELSE LoadOutcome("step", FALSE, 1, steps[1])
      Loaded(desc, d1, task_def) == Answer(desc, d1, task_def, RunnerSteps(task_def))
      Parsed(desc, normalized, d1) ==
        Loaded(desc, d1,
               IF ~StepsIsList(d1) /\ normalized # desc THEN SafeLoad(normalized) ELSE d1)
      Cleaned(desc) == Parsed(desc, NormalizeYamlSteps(desc), SafeLoad(desc))
  IN Cleaned(CleanDescription(raw))

(***************************************************************************)
(* Values, paths and templates.  A nested mapping is held as a function    *)
(* from paths (sequences of keys) to leaf strings; a template is the       *)
(* sequence of its literal parts and ${...} placeholders.                  *)
(***************************************************************************)
NoneVal == "<none>"
DictVal == "<dict>"
EmptyMap == [x \in {} |-> ""]

IsPrefix(p, q) == Len(p) < Len(q) /\ SubSeq(q, 1, Len(p)) = p

\* _get_path_value._walk
Walk(obj, parts) ==
  IF parts \in DOMAIN obj THEN obj[parts]
  ELSE IF \E q \in DOMAIN obj : IsPrefix(parts, q) THEN DictVal
  ELSE NoneVal

GetPathValueContextFirst(path, record, context) ==
  LET val == Walk(context, path)
  IN IF val # NoneVal THEN val ELSE Walk(record, path)

\* _get_path_value
GetPathValue(path, record, context) ==
  LET val == Walk(record, path)
  IN IF val # NoneVal THEN val ELSE Walk(context, path)

Lit(s) == [k |-> "lit", s |-> s, path |-> <<>>]
Ph(path) == [k |-> "ph", s |-> "", path |-> path]
ByName(path) == [k |-> "byname", s |-> "", path |-> path]


(***************************************************************************)
(* Strings the model works on: URL-like names, built from their parts so   *)
(* that the string functions of the code can be computed on them.          *)
(***************************************************************************)
Schemes == {"", "http://", "https://", "HTTPS://"}
Hosts == {"a.com", "b.com", "10.0.0.5"}
Ports == {"", ":22", ":8080"}
Paths == {"", "/x"}
UrlRecs == [scheme : Schemes, host : Hosts, port : Ports, path : Paths]
UrlStr(u) == u.scheme \o u.host \o u.port \o u.path
UrlTable == [s \in {UrlStr(u) : u \in UrlRecs} |-> CHOOSE u \in UrlRecs : UrlStr(u) = s]
IsUrlStr(s) == s \in DOMAIN UrlTable
UrlOf(s) == UrlTable[s]

\* _normalize_asset_key: drop a leading http(s):// (any case), cut at the first "/"
NormalizeAssetKey(value) ==
  IF value = NoneVal THEN ""
  ELSE IF IsUrlStr(value) THEN UrlOf(value).host \o UrlOf(value).port
  ELSE value

Upper(s) ==
  CASE s = "high" -> "HIGH" [] s = "info" -> "INFO"
    [] s = "informational" -> "INFORMATIONAL"
    [] s = "web" -> "WEB" [] s = "network" -> "NETWORK" [] s = "source" -> "SOURCE"
    [] s = "dast" -> "DAST" [] s = "get" -> "GET" [] s = "https" -> "HTTPS"
    [] s = "http" -> "HTTP" [] s = "tcp" -> "TCP"
    [] OTHER -> s

Lower(s) ==
  CASE s = "HTTPS" -> "https" [] s = "HTTP" -> "http" [] s = "DNS" -> "dns"
    [] s = "TCP" -> "tcp" [] s = "SSL" -> "ssl"
    [] OTHER -> s

IsDigit(s) == s \in {ToString(n) : n \in 0..9} \cup {"22", "53", "80", "443", "8080"}

(***************************************************************************)
(* Mappings with optional keys (payloads, caches)                          *)
(***************************************************************************)
Get(p, k) == IF k \in DOMAIN p THEN p[k] ELSE NoneVal
Empty(v) == v \in {NoneVal, ""}
Put(p, k, v) == [x \in DOMAIN p \cup {k} |-> IF x = k THEN v ELSE p[x]]
Default(p, k, v) == IF Empty(Get(p, k)) THEN Put(p, k, v) ELSE p
Or2(a, b) == IF Empty(a) THEN b ELSE a
Or3(a, b, c) == Or2(a, Or2(b, c))

\* context["assets"]["by_name"]
ByNamePrefix == <<"assets", "by_name">>
AssetsByName(context) ==
  [k \in {q[3] : q \in {q \in DOMAIN context : Len(q) = 3 /\ SubSeq(q, 1, 2) = ByNamePrefix}}
     |-> context[ByNamePrefix \o <<k>>]]
\* variant: the resolved id is not remembered
CachePutDropped(context, k, v) == context
CachePut(context, k, v) == Put(context, ByNamePrefix \o <<k>>, v)

(***************************************************************************)
(* _render_string / _render_value                                          *)
(***************************************************************************)
RenderPart(part, record, context) ==
  IF part.k = "lit" THEN part.s
  ELSE IF part.k = "byname" THEN
    LET lookup_key == GetPathValue(part.path, record, context)
        assets_by_name == AssetsByName(context)
        normalized == NormalizeAssetKey(lookup_key)
    IN IF lookup_key = NoneVal THEN ""
       ELSE IF lookup_key \in DOMAIN assets_by_name THEN assets_by_name[lookup_key]
       ELSE IF normalized \in DOMAIN assets_by_name THEN assets_by_name[normalized]
       ELSE ""
  ELSE LET val == GetPathValue(part.path, record, context)
       IN IF val = NoneVal THEN "" ELSE val

RECURSIVE RenderString(_, _, _)
RenderString(value, record, context) ==
  IF value = <<>> THEN ""
  ELSE RenderPart(Head(value), record, context) \o RenderString(Tail(value), record, context)

RenderMap(m, record, context) ==
  [k \in DOMAIN m |-> RenderString(m[k], record, context)]


(***************************************************************************)
(* Remote catalog collaborators.  catalog: asset name -> id, as the remote *)
(* side holds it; calls: the mutations sent; env: the answers of the       *)
(* remote side for one entry.                                              *)
(***************************************************************************)
Env(lookupOk, createOk, remoteOk) ==
  [lookupOk |-> lookupOk, createOk |-> createOk, remoteOk |-> remoteOk]
Envs ==
  {Env(TRUE, TRUE, TRUE), Env(FALSE, TRUE, TRUE), Env(TRUE, FALSE, TRUE),
   Env(TRUE, TRUE, FALSE)}

\* the fields of a mutation's input that the model keeps
CallFields == {"name", "id", "assetId", "type", "severity", "address", "port"}
Call(op, by, payload) ==
  [op |-> op, by |-> by, input |-> [k \in CallFields \cap DOMAIN payload |-> payload[k]]]

NewId(catalog) == ToString(Cardinality(DOMAIN catalog) + 1)

\* _find_asset_by_name: exact match on the name; any failure answers None
FindAssetByName(catalog, name, env) ==
  IF Empty(name) THEN NoneVal
  ELSE IF ~env.lookupOk THEN NoneVal
  ELSE IF name \in DOMAIN catalog THEN catalog[name]
  ELSE NoneVal

RemoteResult(raised, id, catalog, calls) ==
  [raised |-> raised, id |-> id, catalog |-> catalog, calls |-> calls]

\* _create_asset
CreateAsset(catalog, calls, payload, apply, env, by) ==
  IF ~apply THEN RemoteResult(FALSE, NoneVal, catalog, calls)
  ELSE LET sent == Append(calls, Call("createAsset", by, payload))
       IN IF ~env.remoteOk THEN RemoteResult(TRUE, NoneVal, catalog, sent)
          ELSE IF ~env.createOk THEN RemoteResult(FALSE, NoneVal, catalog, sent)
          ELSE RemoteResult(FALSE, NewId(catalog),
                            Put(catalog, Get(payload, "name"), NewId(catalog)), sent)

\* _update_asset
UpdateAsset(catalog, calls, payload, apply, env) ==
  IF ~apply THEN RemoteResult(FALSE, NoneVal, catalog, calls)
  ELSE LET sent == Append(calls, Call("updateAsset", "assets", payload))
       IN IF ~env.remoteOk THEN RemoteResult(TRUE, NoneVal, catalog, sent)
          ELSE IF ~env.createOk THEN RemoteResult(FALSE, NoneVal, catalog, sent)
          ELSE RemoteResult(FALSE, Get(payload, "id"), catalog, sent)

DastRequired ==
  {"assetId", "title", "description", "solution", "impactLevel", "probabilityLevel",
   "severity", "method", "scheme", "url", "port", "request", "response"}
WebRequired ==
  {"assetId", "title", "description", "severity", "method", "scheme", "url", "port",
   "request", "response"}
NetworkRequired ==
  {"assetId", "title", "description", "severity", "address", "protocol", "port",
   "attackVector"}
NetworkCreateRequired ==
  {"assetId", "title", "description", "solution", "impactLevel", "probabilityLevel",
   "severity", "address", "protocol", "port", "attackVector"}
SourceRequired ==
  {"assetId", "title", "description", "solution", "impactLevel", "probabilityLevel",
   "severity", "fileName", "vulnerableLine", "firstLine", "codeSnippet"}

Missing(payload, required) == {r \in required : Empty(Get(payload, r))}

\* the required list of each subtype in _create_vulnerability
RequiredOf(vtype) ==
  CASE vtype = "DAST" -> DastRequired
    [] vtype = "WEB" -> WebRequired
    [] vtype = "NETWORK" -> NetworkCreateRequired
    [] vtype = "SOURCE" -> SourceRequired
    [] OTHER -> {}

\* _create_vulnerability: in apply mode the required fields of the subtype are
\* checked (ValueError) and the mutation of the subtype is sent
\* variant: the mutation is sent whatever the mode
CreateVulnerabilityUnguarded(calls, payload, apply, env) ==
  LET vtype == Upper(Or3(Get(payload, "type"), Get(payload, "vtype"), ""))
      required == CASE vtype = "DAST" -> DastRequired
                    [] vtype = "WEB" -> WebRequired
                    [] vtype = "NETWORK" -> NetworkCreateRequired
                    [] vtype = "SOURCE" -> SourceRequired
                    [] OTHER -> {}
      ints == CASE vtype \in {"DAST", "WEB", "NETWORK"} -> {"port"}
                [] vtype = "SOURCE" -> {"vulnerableLine", "firstLine"}
                [] OTHER -> {}
      sent == Append(calls, Call("create" \o vtype, "vulns.create", payload))
  IN IF vtype \notin {"DAST", "WEB", "NETWORK", "SOURCE"}
          THEN [raised |-> TRUE, calls |-> calls]
     ELSE IF Missing(payload, required) # {} THEN [raised |-> TRUE, calls |-> calls]
     ELSE IF \E k \in ints : ~IsDigit(Get(payload, k))
          THEN [raised |-> TRUE, calls |-> calls]
     ELSE [raised |-> ~env.remoteOk, calls |-> sent]
CreateVulnerability(calls, payload, apply, env) ==
  LET vtype == Upper(Or3(Get(payload, "type"), Get(payload, "vtype"), ""))
      required == CASE vtype = "DAST" -> DastRequired
                    [] vtype = "WEB" -> WebRequired
                    [] vtype = "NETWORK" -> NetworkCreateRequired
                    [] vtype = "SOURCE" -> SourceRequired
                    [] OTHER -> {}
      ints == CASE vtype \in {"DAST", "WEB", "NETWORK"} -> {"port"}
                [] vtype = "SOURCE" -> {"vulnerableLine", "firstLine"}
                [] OTHER -> {}
      sent == Append(calls, Call("create" \o vtype, "vulns.create", payload))
  IN IF ~apply THEN [raised |-> FALSE, calls |-> calls]
     ELSE IF vtype \notin {"DAST", "WEB", "NETWORK", "SOURCE"}
          THEN [raised |-> TRUE, calls |-> calls]
     ELSE IF Missing(payload, required) # {} THEN [raised |-> TRUE, calls |-> calls]
     ELSE IF \E k \in ints : ~IsDigit(Get(payload, k))
          THEN [raised |-> TRUE, calls |-> calls]
     ELSE [raised |-> ~env.remoteOk, calls |-> sent]

(***************************************************************************)
(* Helpers of the vulns.create path                                        *)
(***************************************************************************)
FindingPath(k) == <<"finding", k>>
RawPath(k) == <<"raw", k>>
DnsRequest == ";; dns"

\* _extract_http_method: the first word of the first line, upper-cased
ExtractHttpMethod(request) ==
  CASE Empty(request) -> NoneVal
    [] request = "GET / HTTP/1.1" -> "GET"
    [] request = "post /x" -> "POST"
    [] request = DnsRequest -> ";;"
    [] OTHER -> request

SchemeName(prefix) ==
  CASE prefix = "http://" -> "http" [] prefix \in {"https://", "HTTPS://"} -> "https"
    [] OTHER -> ""
PortNumber(part) ==
  CASE part = ":22" -> "22" [] part = ":8080" -> "8080" [] OTHER -> NoneVal
HasScheme(url) == IsUrlStr(url) /\ UrlOf(url).scheme # ""

\* _infer_scheme_port
\* variant: the default port is 443 for http as for https
InferSchemePortOneDefault(url, scheme, port) ==
  LET s0 == IF Empty(scheme) THEN NoneVal ELSE Lower(scheme)
      parsedPort == IF ~Empty(url) /\ IsUrlStr(url) THEN PortNumber(UrlOf(url).port)
                    ELSE NoneVal
      s1 == IF ~Empty(url) /\ HasScheme(url) /\ Empty(s0)
            THEN SchemeName(UrlOf(url).scheme) ELSE s0
      p1 == IF ~Empty(url) /\ Empty(port) /\ ~Empty(parsedPort) THEN parsedPort ELSE port
      p2 == IF Empty(p1) /\ s1 \in {"http", "https"} THEN "443" ELSE p1
  IN [scheme |-> s1, port |-> p2]
InferSchemePort(url, scheme, port) ==
  LET s0 == IF Empty(scheme) THEN NoneVal ELSE Lower(scheme)
      parsedPort == IF ~Empty(url) /\ IsUrlStr(url) THEN PortNumber(UrlOf(url).port)
                    ELSE NoneVal
      s1 == IF ~Empty(url) /\ HasScheme(url) /\ Empty(s0)
            THEN SchemeName(UrlOf(url).scheme) ELSE s0
      p1 == IF ~Empty(url) /\ Empty(port) /\ ~Empty(parsedPort) THEN parsedPort ELSE port
      p2 == IF Empty(p1) /\ s1 \in {"http", "https"}
            THEN (IF s1 = "https" THEN "443" ELSE "80") ELSE p1
  IN [scheme |-> s1, port |-> p2]

\* _classify_vuln_type
ClassifyVulnType(payload, record) ==
  LET explicit == Upper(Or3(Get(payload, "type"), Get(payload, "vtype"), ""))
      ft == Get(record, FindingPath("type"))
      finding_type == IF Empty(ft) THEN "" ELSE Lower(ft)
      raw_req == Get(record, RawPath("request"))
  IN IF explicit # "" /\ explicit # "DAST" THEN explicit
     ELSE IF finding_type \in {"dns", "ssl", "tcp", "udp", "network"} THEN "NETWORK"
     ELSE IF raw_req = DnsRequest THEN "NETWORK"
     ELSE "WEB"

NarrativeDefaults(p) ==
  LET Solution(a) ==
        Default(a, "solution", Or3(Get(a, "description"), Get(a, "title"), "See description"))
      Levels(a) == Default(Default(a, "impactLevel", "LOW"), "probabilityLevel", "LOW")
      Summary(a) == Default(a, "summary", Or2(Get(a, "title"), "-"))
      Impact(a) ==
        Default(a, "impactDescription", Or3(Get(a, "description"), Get(a, "title"), "-"))
      Steps(a) ==
        Default(a, "stepsToReproduce", Or3(Get(a, "description"), Get(a, "title"), "-"))
  IN Steps(Impact(Summary(Levels(Solution(p)))))

AllowedMethods ==
  {"GET", "POST", "PUT", "PATCH", "DELETE", "OPTIONS", "HEAD", "TRACE", "CONNECT"}

\* the WEB branch of _apply_actions up to its required-field check
WebDefaults(p0) ==
  LET Method(a) ==
        IF Empty(Get(a, "method"))
        THEN Put(a, "method", ExtractHttpMethod(Get(a, "request"))) ELSE a
      Scheme(b, inferred) ==
        IF Empty(Get(b, "scheme")) /\ ~Empty(inferred.scheme)
        THEN Put(b, "scheme", inferred.scheme) ELSE b
      Port(c, inferred) ==
        IF Empty(Get(c, "port")) /\ ~Empty(inferred.port)
        THEN Put(c, "port", inferred.port) ELSE c
      Inferred(b, inferred) == Port(Scheme(b, inferred), inferred)
      Infer(b) ==
        Inferred(b, InferSchemePort(Get(b, "url"), Get(b, "scheme"), Get(b, "port")))
      Url(d) ==
        IF Empty(Get(d, "url")) /\ ~Empty(Get(d, "host"))
        THEN IF ~Empty(Get(d, "port")) /\ Get(d, "port") \notin {"80", "443"}
             THEN Put(d, "url", Or2(Get(d, "scheme"), "https") \o "://" \o Get(d, "host")
                                  \o ":" \o Get(d, "port"))
             ELSE Put(d, "url", Or2(Get(d, "scheme"), "https") \o "://" \o Get(d, "host"))
        ELSE d
      UrlScheme(f) ==
        IF ~Empty(Get(f, "url")) /\ ~HasScheme(Get(f, "url"))
        THEN Put(f, "url", Lower(Or2(Get(f, "scheme"), "https")) \o "://" \o Get(f, "url"))
        ELSE f
      Exchange(g) == Default(Default(g, "request", "-"), "response", "-")
      Allowed(h) ==
        IF Upper(Get(h, "method")) \notin AllowedMethods THEN Put(h, "method", "GET") ELSE h
      Last(i) == Default(Default(i, "scheme", "HTTPS"), "port", "443")
  IN Last(Allowed(Default(Exchange(UrlScheme(Url(Infer(Method(NarrativeDefaults(p0)))))),
                          "method", "GET")))

\* the NETWORK branch of _apply_actions up to its required-field check
NetworkDefaults(p0, record) ==
  LET Fallback(a, fb0) ==
        IF ~Empty(fb0) THEN fb0
        ELSE IF ~Empty(Get(a, "matchedAt")) THEN NormalizeAssetKey(Get(a, "matchedAt"))
        ELSE IF ~Empty(Get(a, "url")) THEN NormalizeAssetKey(Get(a, "url"))
        ELSE NoneVal
      Address(a) ==
        IF Empty(Get(a, "address"))
        THEN Put(a, "address", Fallback(a, Or2(Get(a, "host"), Get(a, "ip")))) ELSE a
      Normal(b) ==
        IF ~Empty(Get(b, "address"))
        THEN Put(b, "address", NormalizeAssetKey(Get(b, "address"))) ELSE b
      Ftype(ft) == IF Empty(ft) THEN "" ELSE Lower(ft)
      Protocol(c) ==
        IF Empty(Get(c, "protocol"))
        THEN Put(c, "protocol",
                 IF \/ Ftype(Get(record, FindingPath("type"))) = "dns"
                    \/ Get(record, RawPath("request")) = DnsRequest
                 THEN "UDP" ELSE "TCP")
        ELSE c
      Port(d) == Default(d, "port", IF Get(d, "protocol") = "UDP" THEN "53" ELSE "443")
  IN Default(Port(Protocol(Normal(Address(NarrativeDefaults(p0))))), "attackVector", "N/A")


(***************************************************************************)
(* _apply_actions, one planned entry at a time.  The dispatcher state ds   *)
(* holds counts, the context (with the assets.by_name cache), the remote   *)
(* catalog, the mutations sent, the status ("ok", "exit" for typer.Exit,   *)
(* "error" for any other exception), the number of entries taken and what  *)
(* happened to the last one.                                               *)
(***************************************************************************)
Counts0 == [created |-> 0, skipped |-> 0, assets_created |-> 0, assets_updated |-> 0]
BumpTwice(counts, k) == [counts EXCEPT ![k] = @ + 2]
Bump(counts, k) == [counts EXCEPT ![k] = @ + 1]
NoLast ==
  [outcome |-> "none", how |-> "none", vtype |-> "", type |-> "", name |-> "",
   missing |-> {}, lacks |-> {}, explicit |-> ""]

AssetAllowed ==
  {"name", "description", "businessImpact", "dataClassification", "assetsTagList",
   "integrations", "environmentCompromised", "exploitability"}

Filter(payload, allowed) ==
  [k \in {x \in allowed \cap DOMAIN payload : ~Empty(payload[x])} |-> payload[k]]

UpperField(p, k) == IF k \in DOMAIN p THEN Put(p, k, Upper(p[k])) ELSE p

\* defaults are rendered first, map second; map does not overwrite a non-empty assetId
\* variant: map overwrites every key
RenderPayloadMapWins(e, context) ==
  LET d == RenderMap(e.defaults, e.record, context)
      m == RenderMap(e.map, e.record, context)
  IN [k \in DOMAIN d \cup DOMAIN m |-> IF k \in DOMAIN m THEN m[k] ELSE d[k]]
RenderPayload(e, context) ==
  LET d == RenderMap(e.defaults, e.record, context)
      m == RenderMap(e.map, e.record, context)
  IN [k \in DOMAIN d \cup DOMAIN m |->
        IF k \in DOMAIN m /\ ~(k = "assetId" /\ ~Empty(Get(d, "assetId")))
        THEN m[k] ELSE d[k]]

\* variant: the dry run has no placeholder id
DryRunNoId == ""
DryRunId == "dry-run"

Resolution(status, id, calls, catalog, counts, how) ==
  [status |-> status, id |-> id, calls |-> calls, catalog |-> catalog,
   counts |-> counts, how |-> how]

\* the asset resolution of a vulns.create entry
ResolveAsset(ds, e, payload, apply, env) ==
  LET context == ds.context
      asset_payload == RenderMap(e.asset.map, e.record, context)
      name == Get(asset_payload, "name")
      existing_assets == AssetsByName(context)
      normalized_name == NormalizeAssetKey(name)
      lookup_existing == FindAssetByName(ds.catalog, normalized_name, env)
      filtered == UpperField(Filter(asset_payload, AssetAllowed), "exploitability")
      created == CreateAsset(ds.catalog, ds.calls, filtered, TRUE, env, "vulns.create")
      lookup == FindAssetByName(created.catalog, normalized_name, env)
      res ==
        IF name \in DOMAIN existing_assets
        THEN Resolution("ok", existing_assets[name], ds.calls, ds.catalog, ds.counts, "cache")
        ELSE IF normalized_name \in DOMAIN existing_assets
        THEN Resolution("ok", existing_assets[normalized_name], ds.calls, ds.catalog,
                        ds.counts, "cache")
        ELSE IF ~Empty(lookup_existing)
        THEN Resolution("ok", lookup_existing, ds.calls, ds.catalog, ds.counts, "search")
        ELSE IF ~apply
        THEN Resolution("ok", DryRunId, ds.calls, ds.catalog, ds.counts, "placeholder")
        ELSE IF created.raised
        THEN Resolution("error", NoneVal, created.calls, created.catalog, ds.counts, "create")
        ELSE IF Empty(created.id)
        THEN (IF Empty(lookup)
              THEN Resolution("exit", NoneVal, created.calls, created.catalog, ds.counts, "create")
              ELSE Resolution("ok", lookup, created.calls, created.catalog, ds.counts, "create"))
        ELSE Resolution("ok", created.id, created.calls, created.catalog,
                        Bump(ds.counts, "assets_created"), "create")
  IN IF ~Empty(Get(payload, "assetId"))
     THEN [status |-> "ok", payload |-> payload, context |-> context, calls |-> ds.calls,
           catalog |-> ds.catalog, counts |-> ds.counts, how |-> "payload", name |-> ""]
     ELSE IF ~e.asset.create_if_missing \/ Empty(name)
     THEN [status |-> "exit", payload |-> payload, context |-> context, calls |-> ds.calls,
           catalog |-> ds.catalog, counts |-> ds.counts,
           how |-> IF e.asset.create_if_missing THEN "noname" ELSE "unconfigured",
           name |-> ""]
     ELSE [status |-> res.status,
           payload |-> IF res.status = "ok" THEN Put(payload, "assetId", res.id) ELSE payload,
           context |-> IF res.status = "ok"
                       THEN CachePut(CachePut(context, name, res.id), normalized_name, res.id)
                       ELSE context,
           calls |-> res.calls, catalog |-> res.catalog, counts |-> res.counts,
           how |-> res.how, name |-> name]

NormalizeSeverity(p) ==
  IF "severity" \in DOMAIN p /\ p["severity"] # NoneVal
  THEN Put(p, "severity",
           IF Upper(p["severity"]) \in {"INFO", "INFORMATIONAL"} THEN "NOTIFICATION"
           ELSE Upper(p["severity"]))
  ELSE p

VulnsCreate(ds, e, payload0, apply, env) ==
  LET Last(r, vtype) ==
        [outcome |-> "none", how |-> r.how, vtype |-> vtype, type |-> e.type,
         name |-> r.name, missing |-> {}, lacks |-> {}, explicit |-> ""]
      After(r) ==
        [ds EXCEPT !.context = r.context, !.calls = r.calls, !.catalog = r.catalog,
                   !.counts = r.counts, !.n = @ + 1]
      Failed(after, last, status) ==
        [after EXCEPT !.status = status, !.last = [last EXCEPT !.outcome = status]]
      Done(after, last, counts, missing, cv) ==
        IF missing # {}
        THEN [after EXCEPT !.counts = Bump(counts, "skipped"),
                           !.last = [last EXCEPT !.outcome = "skipped", !.missing = missing]]
        ELSE IF cv.raised
        THEN [after EXCEPT !.calls = cv.calls, !.status = "error",
                           !.last = [last EXCEPT !.outcome = "error"]]
        ELSE [after EXCEPT !.calls = cv.calls, !.counts = Bump(counts, "created"),
                           !.last = [last EXCEPT !.outcome = "created"]]
      Checked(r, vtype, p4, explicit) ==
        Done(After(r),
             [Last(r, vtype) EXCEPT !.lacks = Missing(p4, RequiredOf(vtype)),
                                    !.explicit = explicit],
             r.counts,
             IF vtype = "WEB" THEN Missing(p4, WebRequired)
             ELSE IF vtype = "NETWORK" THEN Missing(p4, NetworkRequired)
             ELSE {},
             CreateVulnerability(r.calls, Put(p4, "companyId", "1"), apply, env))
      Typed(r, vtype, p3, explicit) ==
        Checked(r, vtype,
                IF vtype = "WEB" THEN WebDefaults(p3)
                ELSE IF vtype = "NETWORK" THEN NetworkDefaults(p3, e.record)
                ELSE p3,
                explicit)
      Classified(r, p2, vtype) ==
        Typed(r, vtype, Put(p2, "type", vtype),
              Upper(Or3(Get(p2, "type"), Get(p2, "vtype"), "")))
      Reserved(vtype0) == IF vtype0 = "DAST" THEN "WEB" ELSE vtype0
      Described(r, p2) == Classified(r, p2, Reserved(ClassifyVulnType(p2, e.record)))
      Resolved(r) ==
        IF r.status # "ok" THEN Failed(After(r), Last(r, ""), r.status)
        ELSE IF Empty(Get(r.payload, "assetId")) THEN Failed(After(r), Last(r, ""), "exit")
        ELSE Described(r, Default(r.payload, "description", Or2(Get(r.payload, "title"), "-")))
  IN Resolved(ResolveAsset(ds, e, NormalizeSeverity(payload0), apply, env))

AssetCoerce(p) == UpperField(UpperField(p, "businessImpact"), "exploitability")

AssetsCreate(ds, e, payload, apply, env) ==
  LET filtered == AssetCoerce(Filter(payload, AssetAllowed))
      c == CreateAsset(ds.catalog, ds.calls, filtered, apply, env, "assets.create")
      after == [ds EXCEPT !.n = @ + 1, !.calls = c.calls, !.catalog = c.catalog]
      last == [NoLast EXCEPT !.type = e.type]
  IN IF "name" \notin DOMAIN filtered
     THEN [ds EXCEPT !.n = @ + 1, !.status = "error", !.last = [last EXCEPT !.outcome = "error"]]
     ELSE IF c.raised
     THEN [after EXCEPT !.status = "error", !.last = [last EXCEPT !.outcome = "error"]]
     ELSE [after EXCEPT !.counts = IF Empty(c.id) THEN ds.counts
                                   ELSE Bump(ds.counts, "assets_created"),
                        !.last = [last EXCEPT !.outcome = "asset"]]

RemoveKey(p, k) == [x \in DOMAIN p \ {k} |-> p[x]]

AssetsUpdate(ds, e, payload, apply, env) ==
  LET filtered == Filter(payload, AssetAllowed \cup {"id", "assetId"})
      asset_id == Or2(Get(filtered, "id"), Get(filtered, "assetId"))
      final == AssetCoerce(RemoveKey(Put(filtered, "id", asset_id), "assetId"))
      u == UpdateAsset(ds.catalog, ds.calls, final, apply, env)
      after == [ds EXCEPT !.n = @ + 1, !.calls = u.calls]
      last == [NoLast EXCEPT !.type = e.type]
  IN IF Empty(asset_id)
     THEN [ds EXCEPT !.n = @ + 1, !.status = "error", !.last = [last EXCEPT !.outcome = "error"]]
     ELSE IF u.raised
     THEN [after EXCEPT !.status = "error", !.last = [last EXCEPT !.outcome = "error"]]
     ELSE [after EXCEPT !.counts = IF Empty(u.id) THEN ds.counts
                                   ELSE Bump(ds.counts, "assets_updated"),
                        !.last = [last EXCEPT !.outcome = "asset"]]

\* assets.enrich: the asset of a name, from the cache or the remote search
\* variant: the cache is asked for the raw name only
EnrichResolveRawOnly(assets_cache, asset_name, catalog, env) ==
  IF Empty(asset_name) THEN NoneVal
  ELSE IF asset_name \in DOMAIN assets_cache THEN assets_cache[asset_name]
  ELSE FindAssetByName(catalog, asset_name, env)
EnrichResolve(assets_cache, asset_name, catalog, env) ==
  IF Empty(asset_name) THEN NoneVal
  ELSE IF asset_name \in DOMAIN assets_cache THEN assets_cache[asset_name]
  ELSE IF NormalizeAssetKey(asset_name) \in DOMAIN assets_cache
       THEN assets_cache[NormalizeAssetKey(asset_name)]
  ELSE FindAssetByName(catalog, asset_name, env)

AssetsEnrich(ds, e, payload, apply, env) ==
  LET given == Or2(Get(payload, "id"), Get(payload, "assetId"))
      asset_name == Get(payload, "name")
      assets_cache == AssetsByName(ds.context)
      normalized_name == NormalizeAssetKey(asset_name)
      resolved == EnrichResolve(assets_cache, asset_name, ds.catalog, env)
      how == IF ~Empty(given) THEN "payload"
             ELSE IF Empty(asset_name) THEN "none"
             ELSE IF asset_name \in DOMAIN assets_cache
                     \/ normalized_name \in DOMAIN assets_cache THEN "cache"
             ELSE "search"
      asset_id == IF Empty(given) THEN resolved ELSE given
      final == RemoveKey(Put(payload, "id", asset_id), "assetId")
      u == UpdateAsset(ds.catalog, ds.calls, final, apply, env)
      after == [ds EXCEPT !.n = @ + 1, !.calls = u.calls]
      last == [NoLast EXCEPT !.type = e.type, !.how = how,
                             !.name = IF Empty(asset_name) THEN "" ELSE asset_name]
  IN IF Empty(asset_id)
     THEN [ds EXCEPT !.n = @ + 1, !.counts = Bump(ds.counts, "skipped"),
                     !.last = [last EXCEPT !.outcome = "skipped"]]
     ELSE IF u.raised
     THEN [after EXCEPT !.status = "error", !.last = [last EXCEPT !.outcome = "error"]]
     ELSE [after EXCEPT !.counts = IF Empty(u.id) THEN ds.counts
                                   ELSE Bump(ds.counts, "assets_updated"),
                        !.last = [last EXCEPT !.outcome = "asset"]]

\* one iteration of the loop of _apply_actions
ApplyEntry(ds, e, apply, env) ==
  LET payload == RenderPayload(e, ds.context)
  IN CASE e.type = "assets.create" -> AssetsCreate(ds, e, payload, apply, env)
       [] e.type = "assets.update" -> AssetsUpdate(ds, e, payload, apply, env)
       [] e.type = "assets.enrich" -> AssetsEnrich(ds, e, payload, apply, env)
       [] e.type = "vulns.create" -> VulnsCreate(ds, e, payload, apply, env)
       [] OTHER -> [ds EXCEPT !.n = @ + 1, !.status = "error",
                              !.last = [NoLast EXCEPT !.outcome = "error", !.type = e.type]]

\* _apply_actions: the entries in order, stopping at the first exception
\* variant: the entries after the one that raised are applied as well
RECURSIVE ApplyActionsGoesOn(_, _, _, _)
ApplyActionsGoesOn(planned, ds, apply, env) ==
  IF planned = <<>> THEN ds
  ELSE ApplyActionsGoesOn(Tail(planned), ApplyEntry(ds, Head(planned), apply, env),
                          apply, env)
RECURSIVE ApplyActions(_, _, _, _)
ApplyActions(planned, ds, apply, env) ==
  IF planned = <<>> \/ ds.status # "ok" THEN ds
  ELSE ApplyActions(Tail(planned), ApplyEntry(ds, Head(planned), apply, env), apply, env)


(***************************************************************************)
(* Approval store: the content of APPROVALS_FILE, hash -> record           *)
(***************************************************************************)
\* _command_key: SHA-256 of the command text, taken as collision free
\* variant: the key is taken of the command text in lower case
CommandKeyFolded(cmd) == IF cmd = "Scan" THEN "sha256:scan" ELSE "sha256:" \o cmd
CommandKey(cmd) == "sha256:" \o cmd

\* _is_command_approved
\* variant: any stored approval passes for the command
IsCommandApprovedAny(approvals, cmd) == DOMAIN approvals # {}
IsCommandApproved(approvals, cmd) == CommandKey(cmd) \in DOMAIN approvals

\* _approve_command: load the file, set one key, write the file
\* variant: the file written holds the new key only
ApproveCommandAlone(approvals, cmd, now) ==
  (CommandKey(cmd) :> [cmd |-> cmd, approved_at |-> now])
ApproveCommand(approvals, cmd, now) ==
  Put(approvals, CommandKey(cmd), [cmd |-> cmd, approved_at |-> now])

(***************************************************************************)
(* Inputs of the model                                                     *)
(***************************************************************************)
MaxActs == 2
MaxEntries == 2
MaxPair == 2
MaxApprovals == 3
MaxHosts == 2
MaxChars == 4
MaxDepth == 2

Path2(a, b) == <<a, b>>

\* findings as the parsers hand them on ({finding, raw})
RecWeb ==
  (FindingPath("name") :> "XSS") @@ (FindingPath("severity") :> "high")
    @@ (FindingPath("url") :> "https://a.com/x") @@ (FindingPath("host") :> "https://a.com/x")
RecPort ==
  (FindingPath("name") :> "Open port") @@ (FindingPath("title") :> "Open port")
    @@ (FindingPath("severity") :> "HIGH") @@ (FindingPath("address") :> "10.0.0.5")
    @@ (FindingPath("protocol") :> "tcp") @@ (FindingPath("port") :> "22")
    @@ (FindingPath("attackVector") :> "N/A") @@ (FindingPath("host") :> "a.com")
RecDns ==
  (FindingPath("name") :> "DNS") @@ (FindingPath("severity") :> "info")
    @@ (FindingPath("type") :> "dns") @@ (FindingPath("host") :> "b.com")
    @@ (RawPath("request") :> DnsRequest)
RecBare == (FindingPath("host") :> "a.com")
RecNoHost == (FindingPath("name") :> "XSS") @@ (FindingPath("severity") :> "high")
Records == {RecWeb, RecPort, RecDns, RecBare, RecNoHost}

FieldMap ==
  [k \in {"title", "severity", "url", "host", "address", "protocol", "port",
          "attackVector", "name"} |->
     IF k = "title" THEN <<Ph(FindingPath("name"))>>
     ELSE IF k = "name" THEN <<Ph(FindingPath("host"))>>
     ELSE <<Ph(FindingPath(k))>>]

AssetIdTemplates == {<<>>, <<Lit("5")>>, <<ByName(FindingPath("host"))>>}
ExplicitTypes == {"", "source"}
ActionTypes == {"assets.create", "assets.update", "assets.enrich", "vulns.create", "bogus"}

ActionSpec(type, aid, vt, cim) ==
  [type |-> type,
   map |-> IF aid = <<>> THEN FieldMap ELSE Put(FieldMap, "assetId", aid),
   defaults |-> IF vt = "" THEN EmptyMap ELSE ("type" :> <<Lit(vt)>>),
   asset |-> [create_if_missing |-> cim, map |-> ("name" :> <<Ph(FindingPath("host"))>>)]]

ActionSpecs ==
  {ActionSpec("vulns.create", aid, vt, cim) :
     aid \in AssetIdTemplates \ {<<Lit("5")>>}, vt \in ExplicitTypes, cim \in BOOLEAN}
  \cup {ActionSpec("vulns.create", <<Lit("5")>>, vt, FALSE) : vt \in ExplicitTypes}
  \cup {ActionSpec("vulns.create", <<>>, "dast", TRUE)}
  \cup {ActionSpec(t, <<>>, "", FALSE) : t \in ActionTypes \ {"vulns.create"}}
  \cup {ActionSpec("assets.update", <<Lit("5")>>, "", FALSE),
        ActionSpec("assets.enrich", <<ByName(FindingPath("host"))>>, "", FALSE)}

\* _actions_from_parsed: one planned entry per finding and action
Entry(action, record) ==
  [type |-> action.type, map |-> action.map, defaults |-> action.defaults,
   asset |-> action.asset, record |-> record]

RECURSIVE ActionsFromParsed(_, _)
ActionsFromParsed(actions, items) ==
  IF items = <<>> THEN <<>>
  ELSE [k \in 1..Len(actions) |-> Entry(actions[k], Head(items))]
         \o ActionsFromParsed(actions, Tail(items))

Entries == {Entry(a, r) : a \in ActionSpecs, r \in Records}

InitCatalogs == {EmptyMap, ("a.com" :> "1")}
InitCaches == {EmptyMap, ("b.com" :> "2")}
\* the cache and the remote catalog a dispatch starts from
InitStocks ==
  {st \in [cache : InitCaches, catalog : InitCatalogs] :
     st.cache = EmptyMap => st.catalog = EmptyMap}

BaseContext == (Path2("company", "id") :> "1") @@ (Path2("project", "id") :> "7")

WithCache(context, cache) ==
  [q \in {q \in DOMAIN context : ~(Len(q) = 3 /\ SubSeq(q, 1, 2) = ByNamePrefix)}
          \cup {ByNamePrefix \o <<k>> : k \in DOMAIN cache} |->
     IF Len(q) = 3 /\ SubSeq(q, 1, 2) = ByNamePrefix THEN cache[q[3]] ELSE context[q]]

Dispatcher0(cache, catalog) ==
  [counts |-> Counts0, context |-> WithCache(BaseContext, cache), calls |-> <<>>,
   catalog |-> catalog, status |-> "ok", n |-> 0, last |-> NoLast]


Formats == {"", "scan-json-lines", "bogus"}
StepCfg(cmd, inputs_assets, fmt, actions) ==
  [cmd |-> cmd, inputs_assets |-> inputs_assets, fmt |-> fmt, actions |-> actions]
CmdScan == <<Lit("scan")>>
CmdProject == <<Lit("scan "), Ph(Path2("project", "id"))>>
CmdFile == <<Lit("scan "), Ph(Path2("assets", "file"))>>
VulnByCreate == ActionSpec("vulns.create", <<>>, "", TRUE)
VulnByLookup == ActionSpec("vulns.create", <<ByName(FindingPath("host"))>>, "", FALSE)
StepCfgs ==
  {StepCfg(<<>>, FALSE, "", <<>>),
   StepCfg(CmdScan, FALSE, "", <<>>),
   StepCfg(CmdScan, FALSE, "scan-json-lines", <<VulnByCreate>>),
   StepCfg(CmdProject, FALSE, "scan-json-lines", <<VulnByLookup>>),
   StepCfg(CmdFile, TRUE, "scan-json-lines", <<VulnByLookup>>),
   StepCfg(CmdFile, FALSE, "scan-json-lines",
           <<ActionSpec("assets.create", <<>>, "", FALSE),
             ActionSpec("vulns.create", <<>>, "source", TRUE)>>),
   StepCfg(CmdProject, FALSE, "bogus", <<VulnByCreate>>)}
ItemLists == {<<>>, <<RecWeb, RecPort>>, <<RecBare>>}
NoStep == [cmd |-> <<>>, inputs_assets |-> FALSE, fmt |-> "", actions |-> <<>>]
ExportFile == "a.txt"

\* one recipe text for each distinct pair of validator and runner results
TextClass(t) == [v |-> ValidateTaskYaml(t), r |-> RunnerLoad(t)]
TextClasses == {TextClass(t) : t \in Texts}
ActivityTexts == {CHOOSE t \in Texts : TextClass(t) = c : c \in TextClasses}

(***************************************************************************)
(* State                                                                   *)
(***************************************************************************)
VARIABLES
  pc,             \* position of run_task: "next", "step", "gate", "exec", "dispatch",
                  \* "done", "abort" (typer.Exit(1)), "crash" (uncaught exception)
  acts,           \* activities taken so far
  cur,            \* the activity in hand: text, step, rendered cmd, context, findings
  store,          \* content of the approvals file
  ran,            \* commands handed to subprocess.run
  tasks_executed, \* steps counted as executed
  outcome,        \* what became of the last activity taken
  base_cache,     \* base_context["assets"]["by_name"]
  catalog,        \* assets of the remote catalog
  calls,          \* mutations sent to the remote catalog for the activity in hand
  dryrun,         \* --dryrun/--apply
  auto_approve,   \* --auto-approve
  ds,             \* a dispatch (_apply_actions) in progress
  apply,          \* its apply argument
  dry,            \* a dispatch with apply = false
  app,            \* the same dispatch with apply = true
  text,           \* a recipe text under validation
  validation,     \* _validate_task_yaml(text)
  loaded,         \* what run_task makes of text
  work,           \* what _validate_task_yaml parsed and how often it normalized
  writers,        \* the processes that approve commands on the approvals file
  arg,            \* the arguments of one call of a helper function
  res             \* what the call returned

vars ==
  <<pc, acts, cur, store, ran, tasks_executed, outcome, base_cache, catalog, calls,
    dryrun, auto_approve, ds, apply, dry, app, text, validation, loaded, work,
    writers, arg, res>>

runVars ==
  <<pc, acts, cur, store, ran, tasks_executed, outcome, base_cache, catalog, calls,
    dryrun, auto_approve>>
dispatchVars == <<ds, apply>>
pairVars == <<dry, app>>
validateVars == <<text, validation, loaded, work>>
callVars == <<arg, res>>
approveVars == <<writers>>

NoCur ==
  [text |-> <<>>, valid |-> Invalid("none"), load |-> LoadOutcome("none", FALSE, 0, "none"),
   step |-> NoStep, cmd |-> "", context |-> BaseContext, items |-> <<>>,
   confirm |-> "unasked", returncode |-> -1]
NoOutcome == [kind |-> "none", logged |-> FALSE]
Outcome(kind, logged) == [kind |-> kind, logged |-> logged]

RunIdle ==
  /\ pc = "idle" /\ acts = 0 /\ cur = NoCur /\ store = EmptyMap /\ ran = {}
  /\ tasks_executed = 0 /\ outcome = NoOutcome /\ base_cache = EmptyMap
  /\ catalog = EmptyMap /\ calls = <<>> /\ dryrun = TRUE /\ auto_approve = FALSE
DispatchIdle == ds = Dispatcher0(EmptyMap, EmptyMap) /\ apply = FALSE
PairIdle == dry = Dispatcher0(EmptyMap, EmptyMap) /\ app = Dispatcher0(EmptyMap, EmptyMap)
NotCalled == [fn |-> "none"]
CallIdle == arg = NotCalled /\ res = NotCalled
ApproveIdle == writers = <<>>
ValidateIdle ==
  /\ text = <<>> /\ validation = Invalid("none")
  /\ loaded = LoadOutcome("none", FALSE, 0, "none") /\ work = NoWork

(***************************************************************************)
(* The dispatcher: one call of _apply_actions, entry by entry              *)
(***************************************************************************)
InitDispatch ==
  /\ RunIdle /\ ValidateIdle /\ PairIdle /\ CallIdle /\ ApproveIdle
  /\ apply \in BOOLEAN
  /\ \E st \in InitStocks : ds = Dispatcher0(st.cache, st.catalog)

\* the answers of the remote side that an entry can meet: the lookup by name is
\* asked by assets.enrich and by create_if_missing, the mutations in apply mode
RemoteAnswers(e, do_apply) ==
  LET asksLookup ==
        e.type = "assets.enrich" \/ (e.type = "vulns.create" /\ e.asset.create_if_missing)
      asksAsset ==
        /\ do_apply
        /\ \/ e.type \in {"assets.create", "assets.update", "assets.enrich"}
           \/ (e.type = "vulns.create" /\ e.asset.create_if_missing)
      asksMutation ==
        do_apply /\ e.type \in {"assets.create", "assets.update", "assets.enrich", "vulns.create"}
  IN {env \in Envs : /\ ~asksLookup => env.lookupOk
                     /\ ~asksAsset => env.createOk
                     /\ ~asksMutation => env.remoteOk}

\* variant: the loop goes on after an entry has raised
DispatchEntryAfterRaise ==
  /\ ds.n < MaxEntries
  /\ \E e \in Entries : \E env \in RemoteAnswers(e, apply) :
       ds' = ApplyEntry(ds, e, apply, env)
  /\ UNCHANGED <<apply, runVars, validateVars, approveVars, callVars, pairVars>>
DispatchEntry ==
  /\ ds.n < MaxEntries
  /\ ds.status = "ok"
  /\ \E e \in Entries : \E env \in RemoteAnswers(e, apply) :
       ds' = ApplyEntry(ds, e, apply, env)
  /\ UNCHANGED <<apply, runVars, validateVars, approveVars, callVars, pairVars>>

NextDispatch == DispatchEntry
SpecDispatch == InitDispatch /\ [][NextDispatch]_vars

(***************************************************************************)
(* The dispatcher run twice, with apply = false and with apply = true,     *)
(* over the same entries, the same cache and the same remote answers       *)
(***************************************************************************)
\* the remote side accepts every mutation it is sent, so that the two runs
\* differ in the mode only; the lookup by name may fail for both
PairEnvs == {env \in Envs : env.createOk /\ env.remoteOk}

InitPair ==
  /\ RunIdle /\ ValidateIdle /\ DispatchIdle /\ CallIdle /\ ApproveIdle
  /\ \E st \in InitStocks :
       dry = Dispatcher0(st.cache, st.catalog) /\ app = Dispatcher0(st.cache, st.catalog)

PairEntry ==
  /\ dry.n < MaxPair /\ app.n < MaxPair
  /\ dry.status = "ok" /\ app.status = "ok"
  /\ \E e \in Entries, env \in PairEnvs :
       /\ dry' = ApplyEntry(dry, e, FALSE, env)
       /\ app' = ApplyEntry(app, e, TRUE, env)
  /\ UNCHANGED <<runVars, validateVars, approveVars, callVars, dispatchVars>>

NextPair == PairEntry
SpecPair == InitPair /\ [][NextPair]_vars

(***************************************************************************)
(* The validator and the loading of run_task on every text                 *)
(***************************************************************************)
InitValidate ==
  /\ RunIdle /\ DispatchIdle /\ PairIdle /\ CallIdle /\ ApproveIdle
  /\ text \in Texts
  /\ validation = Invalid("none") /\ loaded = LoadOutcome("none", FALSE, 0, "none")
  /\ work = NoWork

Validate ==
  /\ validation = Invalid("none")
  /\ validation' = ValidateTaskYaml(text)
  /\ loaded' = RunnerLoad(text)
  /\ work' = ValidateWork(text)
  /\ UNCHANGED <<text, runVars, dispatchVars, pairVars, callVars, approveVars>>

NextValidate == Validate
SpecValidate == InitValidate /\ [][NextValidate]_vars


(***************************************************************************)
(* run_task: the loop over the activities of the matching requirements     *)
(***************************************************************************)
InitStores == {EmptyMap, ApproveCommand(EmptyMap, "scan", 0)}

InitRun ==
  /\ ValidateIdle /\ DispatchIdle /\ PairIdle /\ CallIdle /\ ApproveIdle
  /\ pc = "next" /\ acts = 0 /\ cur = NoCur /\ ran = {} /\ tasks_executed = 0
  /\ outcome = NoOutcome /\ base_cache = EmptyMap /\ calls = <<>>
  /\ store \in InitStores
  /\ catalog \in InitCatalogs
  /\ dryrun \in BOOLEAN
  /\ auto_approve \in BOOLEAN

\* the head of the loop body: clean, parse and check the description
LoadActivity ==
  /\ pc = "next"
  /\ acts < MaxActs
  /\ \E raw \in ActivityTexts :
       LET Loaded(l) ==
             /\ cur' = [NoCur EXCEPT !.text = raw, !.valid = ValidateTaskYaml(raw), !.load = l]
             /\ pc' = CASE l.kind = "skip" -> "next"
                        [] l.kind = "abort" -> "abort"
                        [] OTHER -> "step"
             /\ outcome' = CASE l.kind = "skip" -> Outcome("skipped", l.logged)
                             [] l.kind = "abort" -> Outcome("aborted", TRUE)
                             [] OTHER -> Outcome("running", FALSE)
       IN Loaded(RunnerLoad(raw))
  /\ acts' = acts + 1
  /\ calls' = <<>>
  /\ UNCHANGED <<store, ran, tasks_executed, base_cache, catalog, dryrun,
                 auto_approve, validateVars, approveVars, callVars, dispatchVars, pairVars>>

\* _fetch_assets and the by_name mapping built from it
FetchedCache(cat) ==
  [k \in DOMAIN cat \cup {NormalizeAssetKey(n) : n \in DOMAIN cat} |->
     IF \E n \in DOMAIN cat : NormalizeAssetKey(n) = k
     THEN cat[CHOOSE n \in DOMAIN cat : NormalizeAssetKey(n) = k]
     ELSE cat[k]]

\* step = steps[0], the per-activity context, inputs.assets, run.cmd and its rendering
SetupStep ==
  /\ pc = "step"
  /\ \E cfg \in StepCfgs, fetchOk \in BOOLEAN :
       LET Stepped(context) ==
             IF cur.load.step # "map" \/ (cfg.inputs_assets /\ ~fetchOk)
             THEN /\ pc' = "crash"
                  /\ outcome' = Outcome("crashed", FALSE)
                  /\ cur' = cur
             ELSE IF cfg.cmd = <<>>
             THEN /\ pc' = "next"
                  /\ outcome' = Outcome("nocmd", TRUE)
                  /\ cur' = [cur EXCEPT !.step = cfg, !.context = context]
             ELSE /\ pc' = "gate"
                  /\ outcome' = outcome
                  /\ cur' = [cur EXCEPT !.step = cfg, !.context = context,
                                        !.cmd = RenderString(cfg.cmd, EmptyMap, context)]
       IN Stepped(IF cfg.inputs_assets
                  THEN Put(WithCache(BaseContext, FetchedCache(catalog)),
                           Path2("assets", "file"), ExportFile)
                  ELSE WithCache(BaseContext, base_cache))
  /\ UNCHANGED <<acts, store, ran, tasks_executed, base_cache, catalog, calls, dryrun,
                 auto_approve, validateVars, approveVars, callVars, dispatchVars, pairVars>>

\* the approval gate
\* variant: a declined command ends the run
GateDeclineAborts ==
  /\ pc = "gate"
  /\ \E confirm \in BOOLEAN :
       IF IsCommandApproved(store, cur.cmd)
       THEN pc' = "exec" /\ store' = store /\ outcome' = outcome /\ cur' = cur
       ELSE IF auto_approve
       THEN /\ store' = ApproveCommand(store, cur.cmd, acts)
            /\ pc' = "exec"
            /\ outcome' = outcome
            /\ cur' = cur
       ELSE IF confirm
       THEN /\ store' = ApproveCommand(store, cur.cmd, acts)
            /\ pc' = "exec"
            /\ outcome' = outcome
            /\ cur' = [cur EXCEPT !.confirm = "yes"]
       ELSE /\ store' = store
            /\ pc' = "abort"
            /\ outcome' = Outcome("declined", TRUE)
            /\ cur' = [cur EXCEPT !.confirm = "no"]
  /\ UNCHANGED <<acts, ran, tasks_executed, base_cache, catalog, calls, dryrun,
                 auto_approve, validateVars, approveVars, callVars, dispatchVars, pairVars>>
Gate ==
  /\ pc = "gate"
  /\ \E confirm \in BOOLEAN :
       IF IsCommandApproved(store, cur.cmd)
       THEN pc' = "exec" /\ store' = store /\ outcome' = outcome /\ cur' = cur
       ELSE IF auto_approve
       THEN /\ store' = ApproveCommand(store, cur.cmd, acts)
            /\ pc' = "exec"
            /\ outcome' = outcome
            /\ cur' = cur
       ELSE IF confirm
       THEN /\ store' = ApproveCommand(store, cur.cmd, acts)
            /\ pc' = "exec"
            /\ outcome' = outcome
            /\ cur' = [cur EXCEPT !.confirm = "yes"]
       ELSE /\ store' = store
            /\ pc' = "next"
            /\ outcome' = Outcome("declined", TRUE)
            /\ cur' = [cur EXCEPT !.confirm = "no"]
  /\ UNCHANGED <<acts, ran, tasks_executed, base_cache, catalog, calls, dryrun,
                 auto_approve, validateVars, approveVars, callVars, dispatchVars, pairVars>>

\* subprocess.run, the exit code check and the parsing of the output
\* variant: the exit code of the command is not looked at
ExecIgnoresExit ==
  /\ pc = "exec"
  /\ ran' = ran \cup {[act |-> acts, cmd |-> cur.cmd]}
  /\ \E returncode \in {0, 1}, parsed_items \in ItemLists :
       IF cur.step.fmt \notin {"", "scan-json-lines"}
       THEN /\ pc' = "abort"
            /\ outcome' = Outcome(IF returncode # 0 THEN "failed" ELSE "aborted", TRUE)
            /\ cur' = [cur EXCEPT !.returncode = returncode]
       ELSE /\ pc' = "dispatch"
            /\ outcome' = outcome
            /\ cur' = [cur EXCEPT !.returncode = returncode,
                                  !.items = IF cur.step.fmt = "" THEN <<>> ELSE parsed_items]
  /\ UNCHANGED <<acts, store, tasks_executed, base_cache, catalog, calls, dryrun,
                 auto_approve, validateVars, approveVars, callVars, dispatchVars, pairVars>>
\* variant: a dry run does not start the command
ExecSkippedInDryRun ==
  /\ pc = "exec"
  /\ ran' = IF dryrun THEN ran ELSE ran \cup {[act |-> acts, cmd |-> cur.cmd]}
  /\ \E returncode \in {0, 1}, parsed_items \in ItemLists :
       IF ~dryrun /\ (returncode # 0 \/ cur.step.fmt \notin {"", "scan-json-lines"})
       THEN /\ pc' = "abort"
            /\ outcome' = Outcome(IF returncode # 0 THEN "failed" ELSE "aborted", TRUE)
            /\ cur' = [cur EXCEPT !.returncode = returncode]
       ELSE /\ pc' = "dispatch"
            /\ outcome' = outcome
            /\ cur' = [cur EXCEPT !.returncode = IF dryrun THEN 0 ELSE returncode,
                                  !.items = IF dryrun \/ cur.step.fmt = ""
                                            THEN <<>> ELSE parsed_items]
  /\ UNCHANGED <<acts, store, tasks_executed, base_cache, catalog, calls, dryrun,
                 auto_approve, validateVars, approveVars, callVars, dispatchVars, pairVars>>
Exec ==
  /\ pc = "exec"
  /\ ran' = ran \cup {[act |-> acts, cmd |-> cur.cmd]}
  /\ \E returncode \in {0, 1}, parsed_items \in ItemLists :
       IF returncode # 0 \/ cur.step.fmt \notin {"", "scan-json-lines"}
       THEN /\ pc' = "abort"
            /\ outcome' = Outcome(IF returncode # 0 THEN "failed" ELSE "aborted", TRUE)
            /\ cur' = [cur EXCEPT !.returncode = returncode]
       ELSE /\ pc' = "dispatch"
            /\ outcome' = outcome
            /\ cur' = [cur EXCEPT !.returncode = returncode,
                                  !.items = IF cur.step.fmt = "" THEN <<>> ELSE parsed_items]
  /\ UNCHANGED <<acts, store, tasks_executed, base_cache, catalog, calls, dryrun,
                 auto_approve, validateVars, approveVars, callVars, dispatchVars, pairVars>>

\* the actions of the step, planned over the findings and applied
\* context = dict(base_context) is a shallow copy: unless inputs.assets has put
\* a dict of its own under "assets", the by_name dict the dispatcher writes to
\* is the one of base_context
\* variant: the context is a deep copy
BaseCacheAfterDeepCopy(step, base, context) == base
BaseCacheAfter(step, base, context) ==
  IF step.inputs_assets THEN base ELSE AssetsByName(context)

Dispatch ==
  /\ pc = "dispatch"
  /\ \E env \in Envs :
       LET Applied(d) ==
             /\ pc' = CASE d.status = "ok" -> "next"
                        [] d.status = "exit" -> "abort"
                        [] OTHER -> "crash"
             /\ outcome' = CASE d.status = "ok" -> Outcome("executed", TRUE)
                             [] d.status = "exit" -> Outcome("aborted", TRUE)
                             [] OTHER -> Outcome("crashed", FALSE)
             /\ tasks_executed' = IF d.status = "ok" THEN tasks_executed + 1
                                  ELSE tasks_executed
             /\ calls' = d.calls
             /\ catalog' = d.catalog
             /\ base_cache' = BaseCacheAfter(cur.step, base_cache, d.context)
       IN IF cur.step.actions = <<>>
          THEN /\ pc' = "next"
               /\ outcome' = Outcome("noactions", TRUE)
               /\ UNCHANGED <<tasks_executed, base_cache, catalog, calls>>
          ELSE Applied(ApplyActions(ActionsFromParsed(cur.step.actions, cur.items),
                                    [counts |-> Counts0, context |-> cur.context,
                                     calls |-> <<>>, catalog |-> catalog, status |-> "ok",
                                     n |-> 0, last |-> NoLast],
                                    ~dryrun, env))
  /\ UNCHANGED <<acts, cur, store, ran, dryrun, auto_approve, validateVars, approveVars, callVars,
                 dispatchVars, pairVars>>

\* the end of the loop and the final summary
Finish ==
  /\ pc = "next"
  /\ pc' = "done"
  /\ UNCHANGED <<acts, cur, store, ran, tasks_executed, outcome, base_cache, catalog,
                 calls, dryrun, auto_approve, validateVars, approveVars, callVars,
                 dispatchVars, pairVars>>

NextRun == LoadActivity \/ SetupStep \/ Gate \/ Exec \/ Dispatch \/ Finish
SpecRun == InitRun /\ [][NextRun]_vars


(***************************************************************************)
(* The helper functions, each called once on arguments of its own          *)
(***************************************************************************)
\* the first lines of the loop of _apply_actions, on maps and defaults that
\* share keys
PayloadArgs ==
  LET keys == {"assetId", "severity"}
      templates ==
        {<<>>, <<Lit("5")>>, <<Ph(FindingPath("severity"))>>, <<ByName(FindingPath("host"))>>}
      maps == UNION {[D -> templates] : D \in SUBSET keys}
  IN [fn : {"RenderPayload"},
      e : [type : {"vulns.create"}, defaults : maps, map : maps,
           record : {RecWeb, RecNoHost}],
      context : {WithCache(BaseContext, "a.com" :> "1")}]

PayloadCall ==
  /\ arg.fn = "RenderPayload" /\ res = NotCalled
  /\ res' = [fn |-> arg.fn, value |-> RenderPayload(arg.e, arg.context)]
  /\ UNCHANGED <<arg, runVars, validateVars, approveVars, dispatchVars, pairVars>>

\* _parse_nmap_xml.  A document is well formed or not (ET.fromstring raises
\* ParseError); a host has no status element ("absent"), a status with state
\* "up" or "down", or a status without a state attribute ("nostate"); its
\* addresses are (addrtype, addr) pairs in document order.
ParseNmapXml(doc) ==
  LET Address(h) ==
        IF \E i \in DOMAIN h.addrs : h.addrs[i].addrtype \in {"ipv4", "ipv6"}
        THEN h.addrs[CHOOSE i \in DOMAIN h.addrs :
                       /\ h.addrs[i].addrtype \in {"ipv4", "ipv6"}
                       /\ \A j \in 1..(i - 1) : h.addrs[j].addrtype \notin {"ipv4", "ipv6"}].addr
        ELSE IF h.addrs # <<>> THEN h.addrs[1].addr
        ELSE NoneVal
      kept == SelectSeq(doc.hosts, LAMBDA h : h.status \in {"absent", "up"})
  IN IF ~doc.wellformed THEN [raised |-> TRUE, items |-> <<>>]
     ELSE [raised |-> FALSE,
           items |-> [i \in 1..Len(kept) |->
                        [host |-> [address |-> Address(kept[i]),
                                   hostname |-> kept[i].hostname]]]]

NmapArgs ==
  LET mac == [addrtype |-> "mac", addr |-> "00:11"]
      ip4 == [addrtype |-> "ipv4", addr |-> "10.0.0.5"]
      hosts == [status : {"absent", "up", "down", "nostate"},
                addrs : {<<>>, <<mac>>, <<mac, ip4>>},
                hostname : {NoneVal, "a.com"}]
  IN [fn : {"ParseNmapXml"},
      doc : [wellformed : BOOLEAN,
             hosts : UNION {[1..n -> hosts] : n \in 0..MaxHosts}]]

NmapCall ==
  /\ arg.fn = "ParseNmapXml" /\ res = NotCalled
  /\ res' = [fn |-> arg.fn, value |-> ParseNmapXml(arg.doc)]
  /\ UNCHANGED <<arg, runVars, validateVars, approveVars, dispatchVars, pairVars>>

\* _parse_nuclei_json_lines.  A line is blank, text that is no JSON, a JSON
\* value that is no object ("array"), or an object with the fields that the
\* parser reads; its info is absent, an object or a string.  The finding
\* keeps name, severity, url, scheme, port and matchedAt.
ParseNucleiJsonLines(source_text) ==
  LET Raises(l) == l.json = "array" \/ (l.json = "object" /\ l.info = "string")
      Info(l) == IF l.info = "object" THEN ("name" :> "XSS") @@ ("severity" :> "high")
                 ELSE EmptyMap
      Url(url0, inferred) ==
        IF ~Empty(url0) /\ ~HasScheme(url0) /\ inferred.scheme \in {"http", "https"}
        THEN inferred.scheme \o "://" \o url0 ELSE url0
      Built(l, url0, inferred) ==
        [name |-> Or2(Get(Info(l), "name"), Get(l.raw, "template-id")),
         severity |-> Get(Info(l), "severity"),
         matchedAt |-> Get(l.raw, "matched-at"),
         url |-> Url(url0, inferred), scheme |-> inferred.scheme, port |-> inferred.port]
      Inferred(l, url0) ==
        Built(l, url0, InferSchemePort(url0, Get(l.raw, "scheme"), Get(l.raw, "port")))
      Finding(l) == Inferred(l, Or2(Get(l.raw, "url"), Get(l.raw, "matched-at")))
      objects == SelectSeq(source_text, LAMBDA l : l.json = "object")
  IN IF \E i \in DOMAIN source_text : Raises(source_text[i]) THEN [raised |-> TRUE, items |-> <<>>]
     ELSE [raised |-> FALSE,
           items |-> [i \in 1..Len(objects) |->
                        [finding |-> Finding(objects[i]), raw |-> objects[i].raw]]]

\* one line with every choice of the fields read, and texts of up to MaxLines
\* lines of every kind
NucleiArgs ==
  LET Raw(url, at, scheme, port) ==
        [k \in {x \in {"url", "matched-at", "scheme", "port", "template-id"} :
                  CASE x = "url" -> url # NoneVal [] x = "matched-at" -> at # NoneVal
                    [] x = "scheme" -> scheme # NoneVal [] x = "port" -> port # NoneVal
                    [] OTHER -> TRUE} |->
           CASE k = "url" -> url [] k = "matched-at" -> at [] k = "scheme" -> scheme
             [] k = "port" -> port [] OTHER -> "t1"]
      Object(info, raw) == [json |-> "object", info |-> info, raw |-> raw]
      Other(json) == [json |-> json, info |-> "absent", raw |-> EmptyMap]
      rich == {Object("object", Raw(url, at, scheme, port)) :
                 url \in {NoneVal, "a.com", "a.com:8080", "https://a.com/x",
                          "https://a.com:8080/x", "http://b.com", "HTTPS://a.com"},
                 at \in {NoneVal, "http://b.com:22"},
                 scheme \in {NoneVal, "HTTPS", "http"},
                 port \in {NoneVal, "22"}}
      kinds == {Other("blank"), Other("text"), Other("array"),
                Object("string", Raw("https://a.com/x", NoneVal, NoneVal, NoneVal)),
                Object("absent", Raw("a.com", NoneVal, "http", NoneVal)),
                Object("object", Raw("http://b.com", NoneVal, NoneVal, NoneVal))}
  IN [fn : {"ParseNucleiJsonLines"},
      text : {<<l>> : l \in rich} \cup UNION {[1..n -> kinds] : n \in 0..MaxLines}]

NucleiCall ==
  /\ arg.fn = "ParseNucleiJsonLines" /\ res = NotCalled
  /\ res' = [fn |-> arg.fn, value |-> ParseNucleiJsonLines(arg.text)]
  /\ UNCHANGED <<arg, runVars, validateVars, approveVars, dispatchVars, pairVars>>

\* _parse_scan_json_lines.  A line is blank, text that is no JSON, a JSON
\* value that is no object ("array"), or an object; the finding is the value
\* of its "finding" key when that is an object, the object itself otherwise.
ParseScanJsonLines(source_text) ==
  LET Copy(f, to, from) ==
        IF to \notin DOMAIN f /\ from \in DOMAIN f THEN Put(f, to, f[from]) ELSE f
      Finding(l) ==
        Copy(Copy(Copy(IF l.info = "object" THEN l.finding ELSE l.raw, "name", "title"),
                  "host", "asset"),
             "url", "matchedAt")
      objects == SelectSeq(source_text, LAMBDA l : l.json = "object")
  IN [raised |-> FALSE,
      items |-> [i \in 1..Len(objects) |->
                   [finding |-> Finding(objects[i]), raw |-> objects[i].raw]]]

ScanArgs ==
  LET Other(json) == [json |-> json, info |-> "absent", raw |-> EmptyMap, finding |-> EmptyMap]
      Object(info, raw, finding) ==
        [json |-> "object", info |-> info, raw |-> raw, finding |-> finding]
      kinds == {Other("blank"), Other("text"), Other("array"),
                Object("absent", ("title" :> "Open port") @@ ("asset" :> "a.com"), EmptyMap),
                Object("string", ("title" :> "XSS") @@ ("finding" :> "x"), EmptyMap),
                Object("object", ("finding" :> DictVal),
                       ("name" :> "DNS") @@ ("title" :> "t") @@ ("matchedAt" :> "b.com"))}
  IN [fn : {"ParseScanJsonLines"}, text : UNION {[1..n -> kinds] : n \in 0..MaxLines}]

ScanCall ==
  /\ arg.fn = "ParseScanJsonLines" /\ res = NotCalled
  /\ res' = [fn |-> arg.fn, value |-> ParseScanJsonLines(arg.text)]
  /\ UNCHANGED <<arg, runVars, validateVars, approveVars, dispatchVars, pairVars>>

\* _render_string on the characters of a string: every leftmost match of
\* _TEMPLATE_RE ("${", one or more characters other than "}", "}") is replaced
\* by the value found under the stripped key, or by "" when there is none.
\* variant: the pattern also matches an empty key
RECURSIVE RenderTextEmptyKey(_, _, _)
RenderTextEmptyKey(value, record, context) ==
  LET Inked(key) == {i \in DOMAIN key : key[i] # " "}
      Strip(key) ==
        IF Inked(key) = {} THEN <<>>
        ELSE SubSeq(key, CHOOSE i \in Inked(key) : \A j \in Inked(key) : i <= j,
                         CHOOSE i \in Inked(key) : \A j \in Inked(key) : i >= j)
      Found(val) == IF val \in {NoneVal, DictVal} THEN <<>> ELSE <<val>>
      Replace(key) ==
        IF Len(key) = 1 THEN Found(GetPathValue(key, record, context)) ELSE <<>>
      close == CHOOSE j \in 3..Len(value) :
                 value[j] = "}" /\ \A k \in 3..(j - 1) : value[k] # "}"
  IN IF value = <<>> THEN <<>>
     ELSE IF /\ Len(value) >= 3 /\ value[1] = "$" /\ value[2] = "{"
             /\ \E j \in 3..Len(value) : value[j] = "}"
     THEN Replace(Strip(SubSeq(value, 3, close - 1)))
            \o RenderTextEmptyKey(SubSeq(value, close + 1, Len(value)), record, context)
     ELSE <<Head(value)>> \o RenderTextEmptyKey(Tail(value), record, context)
RECURSIVE RenderText(_, _, _)
RenderText(value, record, context) ==
  LET Inked(key) == {i \in DOMAIN key : key[i] # " "}
      Strip(key) ==
        IF Inked(key) = {} THEN <<>>
        ELSE SubSeq(key, CHOOSE i \in Inked(key) : \A j \in Inked(key) : i <= j,
                         CHOOSE i \in Inked(key) : \A j \in Inked(key) : i >= j)
      Found(val) == IF val \in {NoneVal, DictVal} THEN <<>> ELSE <<val>>
      Replace(key) ==
        IF Len(key) = 1 THEN Found(GetPathValue(key, record, context)) ELSE <<>>
      close == CHOOSE j \in 4..Len(value) :
                 value[j] = "}" /\ \A k \in 4..(j - 1) : value[k] # "}"
  IN IF value = <<>> THEN <<>>
     ELSE IF /\ Len(value) >= 4 /\ value[1] = "$" /\ value[2] = "{" /\ value[3] # "}"
             /\ \E j \in 4..Len(value) : value[j] = "}"
     THEN Replace(Strip(SubSeq(value, 3, close - 1)))
            \o RenderText(SubSeq(value, close + 1, Len(value)), record, context)
     ELSE <<Head(value)>> \o RenderText(Tail(value), record, context)

\* _render_value: strings are rendered, lists and mappings element by
\* element, a value of another type is returned as it is
RECURSIVE RenderValue(_, _, _)
RenderValue(value, record, context) ==
  CASE value.t = "str" -> [t |-> "str", v |-> RenderText(value.v, record, context)]
    [] value.t = "list" ->
         [t |-> "list", v |-> [i \in DOMAIN value.v |-> RenderValue(value.v[i], record, context)]]
    [] value.t = "dict" ->
         [t |-> "dict", v |-> [k \in DOMAIN value.v |-> RenderValue(value.v[k], record, context)]]
    [] OTHER -> value

\* every string of up to MaxChars characters, and lists and mappings nested
\* up to MaxDepth deep over a few strings, a number and None
RECURSIVE RenderValues(_)
RenderValues(depth) ==
  LET Str(chars) == [t |-> "str", v |-> chars]
      Nested(inner) ==
        inner \cup {[t |-> "list", v |-> <<x>>] : x \in inner}
              \cup {[t |-> "list", v |-> <<Str(<<"$", "a">>), x>>] : x \in inner}
              \cup {[t |-> "dict", v |-> ("k" :> x)] : x \in inner}
  IN IF depth = 0
     THEN {Str(<<"a", " ">>), Str(<<"$", "{", "}">>), Str(<<"$", "{", "x", "}">>),
           [t |-> "int", v |-> 5], [t |-> "none", v |-> 0]}
     ELSE Nested(RenderValues(depth - 1))

RenderArgs ==
  [fn : {"RenderValue"},
   value : {[t |-> "str", v |-> chars] :
              chars \in UNION {[1..n -> {"a", "x", "$", "{", "}", " "}] : n \in 0..MaxChars}}
           \cup RenderValues(MaxDepth),
   record : {EmptyMap, (<<"x">> :> "v")},
   context : {BaseContext, (<<"x">> :> "w") @@ (<<"a">> :> "u")}]

RenderCall ==
  /\ arg.fn = "RenderValue" /\ res = NotCalled
  /\ res' = [fn |-> arg.fn, value |-> RenderValue(arg.value, arg.record, arg.context)]
  /\ UNCHANGED <<arg, runVars, validateVars, approveVars, dispatchVars, pairVars>>

\* _approve_command, called again and again on the approvals file; arg holds
\* the commands approved so far
ApprovalCommands == {"scan", "Scan", "scan 7"}

ApproveCall ==
  /\ arg.fn = "ApproveCommand" /\ Len(arg.cmds) < MaxApprovals
  /\ \E cmd \in ApprovalCommands, now \in {Len(arg.cmds), Len(arg.cmds) + 1} :
       /\ store' = ApproveCommand(store, cmd, now)
       /\ arg' = [arg EXCEPT !.cmds = Append(@, cmd)]
  /\ UNCHANGED <<res, pc, acts, cur, ran, tasks_executed, outcome, base_cache, catalog,
                 calls, dryrun, auto_approve, validateVars, approveVars, dispatchVars, pairVars>>

\* _render_string on the one placeholder ${path}: finding and context are
\* nested mappings over the keys a and b, a leaf being a string or None
PathDomains ==
  {{}, {<<"a">>}, {<<"a", "b">>}, {<<"b">>}, {<<"a">>, <<"b">>}, {<<"a", "b">>, <<"b">>}}
PathMaps(leaves) == UNION {[d -> leaves] : d \in PathDomains}

PathArgs ==
  [fn : {"RenderString"}, path : {<<"a">>, <<"a", "b">>},
   record : PathMaps({"r", NoneVal}), context : PathMaps({"c", NoneVal})]

PathCall ==
  /\ arg.fn = "RenderString" /\ res = NotCalled
  /\ res' = [fn |-> arg.fn, value |-> RenderString(<<Ph(arg.path)>>, arg.record, arg.context)]
  /\ UNCHANGED <<arg, runVars, validateVars, approveVars, dispatchVars, pairVars>>

InitCall ==
  /\ RunIdle /\ ValidateIdle /\ DispatchIdle /\ PairIdle /\ ApproveIdle
  /\ arg \in PayloadArgs \cup {[fn |-> "ApproveCommand", cmds |-> <<>>]} \cup NmapArgs
             \cup NucleiArgs \cup ScanArgs \cup RenderArgs \cup PathArgs
  /\ res = NotCalled

NextCall ==
  \/ PayloadCall \/ ApproveCall \/ NmapCall \/ NucleiCall \/ ScanCall \/ RenderCall
  \/ PathCall
SpecCall == InitCall /\ [][NextCall]_vars

(***************************************************************************)
(* Processes that approve commands on the same approvals file, with no     *)
(* lock between them.  _approve_command is three steps for the file: it is *)
(* read (_load_approved_commands), opened for writing, which empties it,   *)
(* and written when json.dump is flushed.  A file that is empty or is no   *)
(* JSON reads as {}; store = {} stands for such a file as well.            *)
(***************************************************************************)
Writers == {1, 2}
IdleWriter ==
  [pc |-> "idle", cmd |-> "", approvals |-> EmptyMap, overlaid |-> FALSE, done |-> <<>>]

ApprovalsBegun ==
  Len(writers[1].done) + Len(writers[2].done)
    + Cardinality({p \in Writers : writers[p].pc # "idle"})

InitApprove ==
  /\ RunIdle /\ ValidateIdle /\ DispatchIdle /\ PairIdle /\ CallIdle
  /\ writers = [p \in Writers |-> IdleWriter]

\* approvals = _load_approved_commands()
ApproveLoad(p) ==
  /\ writers[p].pc = "idle" /\ ApprovalsBegun < MaxApprovals
  /\ \E cmd \in ApprovalCommands :
       writers' = [writers EXCEPT ![p] = [@ EXCEPT !.pc = "loaded", !.cmd = cmd,
                                                   !.approvals = store]]
  /\ UNCHANGED <<runVars, validateVars, callVars, dispatchVars, pairVars>>

\* _save_approved_commands: open(APPROVALS_FILE, "w") truncates the file
ApproveOpen(p) ==
  /\ writers[p].pc = "loaded"
  /\ writers' = [writers EXCEPT ![p] = [@ EXCEPT !.pc = "open", !.overlaid = FALSE]]
  /\ store' = EmptyMap
  /\ UNCHANGED <<pc, acts, cur, ran, tasks_executed, outcome, base_cache, catalog, calls,
                 dryrun, auto_approve, validateVars, callVars, dispatchVars, pairVars>>

\* _save_approved_commands: the text is written from the start of the file.
\* When another process has written since this one opened the file, the text
\* lies over the other one: the file holds this text, or this text and the
\* rest of a longer one, which is no JSON.
ApproveDump(p) ==
  /\ writers[p].pc = "open"
  /\ \E whole \in (IF writers[p].overlaid THEN BOOLEAN ELSE {TRUE}) :
       store' = IF whole
                THEN ApproveCommand(writers[p].approvals, writers[p].cmd,
                                    Len(writers[1].done) + Len(writers[2].done))
                ELSE EmptyMap
  /\ writers' = [q \in Writers |->
                  IF q = p
                  THEN [writers[q] EXCEPT !.pc = "idle", !.done = Append(@, writers[p].cmd)]
                  ELSE IF writers[q].pc = "open" THEN [writers[q] EXCEPT !.overlaid = TRUE]
                  ELSE writers[q]]
  /\ UNCHANGED <<pc, acts, cur, ran, tasks_executed, outcome, base_cache, catalog, calls,
                 dryrun, auto_approve, validateVars, callVars, dispatchVars, pairVars>>

NextApprove == \E p \in Writers : ApproveLoad(p) \/ ApproveOpen(p) \/ ApproveDump(p)
SpecApprove == InitApprove /\ [][NextApprove]_vars


(***************************************************************************)
(* Properties                                                              *)
(***************************************************************************)

\* C1: in tasks run a command is handed to the shell only when the SHA-256 of
\* its rendered text is a key of the approval store at that moment, and that
\* entry records the same command text.
C1_ExecOnlyApproved ==
  /\ pc = "exec" =>
       /\ CommandKey(cur.cmd) \in DOMAIN store
       /\ store[CommandKey(cur.cmd)].cmd = cur.cmd
  /\ \A r \in ran : CommandKey(r.cmd) \in DOMAIN store

\* a command that was not stored before the run was approved in the iteration
\* of its activity and then executed
C1_Witness ==
  \E r \in ran :
    /\ CommandKey(r.cmd) \in DOMAIN store
    /\ store[CommandKey(r.cmd)].approved_at = r.act
    /\ r.cmd = "scan 7"

\* C2: when the command is not approved, auto-approve is off and the user
\* declines, the command is not run, nothing is stored, the step is not counted
\* as executed, the run does not abort and the loop goes on with the next
\* activity.
C2_DeclineSkips ==
  [][(cur'.confirm = "no" /\ cur.confirm # "no") =>
       /\ ~IsCommandApproved(store, cur.cmd) /\ ~auto_approve
       /\ pc' = "next"
       /\ ran' = ran
       /\ store' = store
       /\ tasks_executed' = tasks_executed
       /\ outcome'.kind = "declined"]_vars

\* the user declined the command of an activity and the run is back at the head
\* of the loop with activities left to take
C2_Witness ==
  /\ cur.confirm = "no" /\ pc = "next" /\ acts < MaxActs
  /\ \A r \in ran : r.act # acts

\* C5 (as claimed): a recipe text with two or more step entries fails
\* validation with the step count as reason, and the run aborts when the runner
\* meets it.
C5_MultiStepAborts ==
  (pc # "idle" /\ cur.valid.steps >= 2) =>
     /\ ~cur.valid.ok
     /\ cur.valid.reason = "steps=" \o ToString(cur.valid.steps)
     /\ pc = "abort"

\* C6: a recipe text whose steps list has a length other than 1 is rejected by
\* _validate_task_yaml with the reason "steps=<length>", and run_task does not
\* hand on a step of it.
C6_StepCountRejected ==
  LET cleaned == CleanDescription(text)
      d1 == SafeLoad(cleaned)
      d2 == SafeLoad(NormalizeYamlSteps(cleaned))
      doc == IF StepsIsList(d1) THEN d1 ELSE d2
  IN (validation # Invalid("none") /\ StepsIsList(doc) /\ Len(doc.sitems) # 1) =>
       /\ ~validation.ok
       /\ validation.reason = "steps=" \o ToString(Len(doc.sitems))
       /\ loaded.kind # "step"

\* a text with an empty steps list has been validated
C6_Witness == validation.reason = "steps=0" /\ loaded.kind = "skip"

\* C7 (as claimed): an activity whose recipe is structurally invalid (empty,
\* unparsable, not a mapping, steps missing or empty, a step that is not a
\* mapping) is skipped alone and the run goes on; the run never ends for it.
C7_InvalidRecipeSkipped ==
  LET cleaned == CleanDescription(cur.text)
      d1 == SafeLoad(cleaned)
      d2 == SafeLoad(NormalizeYamlSteps(cleaned))
      doc == IF StepsIsList(d1) THEN d1 ELSE d2
      invalid == \/ cur.valid.reason \in {"empty_description", "invalid_yaml",
                                          "not_a_mapping", "missing_steps", "steps=0"}
                 \/ (StepsIsList(doc) /\ doc.sitems = <<"str">>)
  IN (pc # "idle" /\ acts > 0 /\ invalid) =>
       /\ pc \notin {"abort", "crash"}
       /\ \A r \in ran : r.act # acts
       /\ pc \in {"next", "done"} => outcome.kind = "skipped"

\* C8: a command that exits non-zero aborts the run with exit code 1: its output
\* is not parsed, no action is dispatched for the activity, the step is not
\* counted, and no step of the run follows the abort.
C8_NonZeroExitAborts ==
  /\ [](cur.returncode > 0 =>
          /\ pc = "abort"
          /\ outcome.kind = "failed"
          /\ cur.items = <<>>
          /\ calls = <<>>)
  /\ [][pc = "abort" => pc' = "abort"]_vars

\* the command of the second or a later activity failed and the run is aborted
\* with activities left
C8_Witness ==
  /\ pc = "abort" /\ cur.returncode = 1 /\ acts >= 2 /\ tasks_executed >= 1
  /\ \E r \in ran : r.act = acts


\* C3: in dry-run mode the dispatcher sends none of the mutations create-asset,
\* update-asset, create-vulnerability, whatever entries it is given and
\* whatever the asset-name cache holds.
C3_DryRunNoMutation ==
  ~apply => ds.calls = <<>>

\* a dry-run dispatch has gone through a vulnerability creation, which it
\* counted, and an asset creation
C3_Witness ==
  /\ ~apply /\ ds.n = 2 /\ ds.status = "ok"
  /\ ds.counts.created >= 1 /\ ds.last.type = "assets.create"

\* C4: in apply mode, vulns.create entries with create_if_missing whose asset
\* names are equal or normalize to the same key cause at most one create-asset
\* mutation for that key; after a resolution the id is in the cache under the
\* raw and the normalized name.
C4_OneCreatePerAsset ==
  apply =>
    /\ \A i, j \in DOMAIN ds.calls :
         (/\ ds.calls[i].op = "createAsset" /\ ds.calls[i].by = "vulns.create"
          /\ ds.calls[j].op = "createAsset" /\ ds.calls[j].by = "vulns.create"
          /\ NormalizeAssetKey(ds.calls[i].input.name) = NormalizeAssetKey(ds.calls[j].input.name))
         => i = j
    /\ (ds.status = "ok" /\ ds.last.type = "vulns.create"
          /\ ds.last.how \in {"create", "search"}) =>
         LET cache == AssetsByName(ds.context)
         IN /\ ds.last.name \in DOMAIN cache
            /\ NormalizeAssetKey(ds.last.name) \in DOMAIN cache
            /\ cache[ds.last.name] = cache[NormalizeAssetKey(ds.last.name)]

\* the asset of the second entry, named differently from the first but with the
\* same normalized key, came from the cache after the first entry created it
C4_Witness ==
  /\ apply /\ ds.n = 2 /\ ds.last.how = "cache" /\ ds.last.outcome = "created"
  /\ \E i \in DOMAIN ds.calls :
       /\ ds.calls[i].op = "createAsset" /\ ds.calls[i].by = "vulns.create"
       /\ ds.calls[i].input.name # ds.last.name
       /\ NormalizeAssetKey(ds.calls[i].input.name) = NormalizeAssetKey(ds.last.name)
  /\ Cardinality({i \in DOMAIN ds.calls : ds.calls[i].op = "createAsset"}) = 1

\* C9 (as claimed): run on the same entries, context and remote answers, the
\* dry-run dispatch and the apply dispatch skip the same entries, count the
\* same entries as created and end in an error for the same entries.
C9_DryRunMirrorsApply ==
  /\ dry.counts.skipped = app.counts.skipped
  /\ dry.counts.created = app.counts.created
  /\ dry.status = app.status

C11_MissingFieldSkipsAlone ==
  (ds.last.type = "vulns.create" /\ ds.last.vtype # "" /\ ds.last.lacks # {}) =>
    /\ ds.status = "ok"
    /\ ds.last.outcome = "skipped"
    /\ ds.counts.skipped >= 1


\* C12: a vulns.create entry whose payload has no assetId and whose action
\* does not set create_if_missing ends the dispatch with an exit error: the
\* entry is counted neither in skipped nor in created, nothing is sent for it,
\* and no later entry is processed.
C12_NoAssetIdIsFatal ==
  /\ [][(ds'.n = ds.n + 1 /\ ds'.last.type = "vulns.create"
           /\ ds'.last.how = "unconfigured") =>
          /\ ds'.status = "exit"
          /\ ds'.last.outcome = "exit"
          /\ ds'.counts = ds.counts
          /\ ds'.calls = ds.calls]_vars
  /\ [][ds.status = "exit" => ds' = ds]_vars

C12_Witness ==
  /\ ds.n = 2 /\ ds.status = "exit" /\ ds.last.type = "vulns.create"
  /\ ds.last.how = "unconfigured" /\ ds.counts.created = 1 /\ ds.counts.skipped = 0


\* C13: without an explicit type the subtype follows the shape of the record:
\* every vulnerability creation sent for a payload that carries an address is
\* the NETWORK one (so the finding with severity HIGH, address 10.0.0.5,
\* protocol tcp and port 22 gives a NETWORK creation call).
C13_AddressMeansNetwork ==
  \A i \in DOMAIN ds.calls :
    (/\ ds.calls[i].by = "vulns.create"
     /\ ds.calls[i].op # "createAsset"
     /\ ~Empty(Get(ds.calls[i].input, "address"))) =>
      /\ ds.calls[i].op = "createNETWORK"
      /\ ds.calls[i].input.type = "NETWORK"


\* C14: a vulns.create entry whose explicit type is DAST is handled as the
\* WEB subtype, whatever else its record carries.
C14_DastBecomesWeb ==
  (ds.last.type = "vulns.create" /\ ds.last.explicit = "DAST") =>
    ds.last.vtype = "WEB"


\* C15: the payload of an entry holds the keys of defaults and of map; a key
\* of both takes the rendered map value, except assetId, which keeps the
\* value rendered from defaults when that value is not empty.
C15_MapWinsExceptAssetId ==
  res.fn = "RenderPayload" =>
    LET d == RenderMap(arg.e.defaults, arg.e.record, arg.context)
        m == RenderMap(arg.e.map, arg.e.record, arg.context)
    IN /\ DOMAIN res.value = DOMAIN d \cup DOMAIN m
       /\ \A k \in DOMAIN res.value :
            res.value[k] =
              IF k \in DOMAIN d /\ k \in DOMAIN m
              THEN (IF k = "assetId" /\ d[k] # "" THEN d[k] ELSE m[k])
              ELSE IF k \in DOMAIN m THEN m[k] ELSE d[k]

C15_Witness ==
  /\ res.fn = "RenderPayload"
  /\ arg.e.defaults = [k \in {"assetId", "severity"} |-> <<Lit("5")>>]
  /\ arg.e.map = ("assetId" :> <<ByName(FindingPath("host"))>>)
                   @@ ("severity" :> <<Ph(FindingPath("severity"))>>)
  /\ arg.e.record = RecWeb
  /\ res.value = ("assetId" :> "5") @@ ("severity" :> "high")


\* C16: however often commands are approved, the store holds exactly one
\* entry for each distinct command text approved, under the SHA-256 of that
\* text and recording it, and a command is approved exactly when its own text
\* was approved: approving one text never approves another.
C16_OneEntryPerCommand ==
  arg.fn = "ApproveCommand" =>
    LET approved == {arg.cmds[i] : i \in DOMAIN arg.cmds}
    IN /\ DOMAIN store = {CommandKey(c) : c \in approved}
       /\ Cardinality(DOMAIN store) = Cardinality(approved)
       /\ \A c \in approved : store[CommandKey(c)].cmd = c
       /\ \A c \in ApprovalCommands : IsCommandApproved(store, c) <=> c \in approved

C16_Witness ==
  /\ arg.fn = "ApproveCommand"
  /\ arg.cmds = <<"scan", "scan", "Scan">>
  /\ Cardinality(DOMAIN store) = 2
  /\ IsCommandApproved(store, "scan") /\ ~IsCommandApproved(store, "scan 7")


\* C17: the nmap-xml parser emits a finding for a host only if the status of
\* the host is "up": it returns as many findings as the document has hosts
\* whose status is "up".
C17_OneFindingPerUpHost ==
  (res.fn = "ParseNmapXml" /\ ~res.value.raised) =>
    Len(res.value.items) =
      Cardinality({i \in DOMAIN arg.doc.hosts : arg.doc.hosts[i].status = "up"})


\* C18 (as claimed): a nuclei-json-lines line without a port field gives a
\* finding with port 443 when its scheme resolves to https and with port 80
\* when it resolves to http.
C18_DefaultPortOfScheme ==
  (/\ res.fn = "ParseNucleiJsonLines" /\ ~res.value.raised
   /\ Len(arg.text) = 1 /\ Len(res.value.items) = 1
   /\ "port" \notin DOMAIN arg.text[1].raw) =>
    /\ res.value.items[1].finding.scheme = "https" => res.value.items[1].finding.port = "443"
    /\ res.value.items[1].finding.scheme = "http" => res.value.items[1].finding.port = "80"

\* C18 (amended): a nuclei-json-lines line without a port field, whose URL
\* (url, else matched-at) names no port, gives a finding with port 443 when
\* its scheme resolves to https and with port 80 when it resolves to http; a
\* port named in the URL is the port of the finding.
C18_DefaultPortUnlessInUrl ==
  (/\ res.fn = "ParseNucleiJsonLines" /\ ~res.value.raised
   /\ Len(arg.text) = 1 /\ Len(res.value.items) = 1
   /\ "port" \notin DOMAIN arg.text[1].raw) =>
    LET url == Or2(Get(arg.text[1].raw, "url"), Get(arg.text[1].raw, "matched-at"))
        inUrl == IF Empty(url) THEN NoneVal ELSE PortNumber(UrlOf(url).port)
        finding == res.value.items[1].finding
    IN IF inUrl = NoneVal
       THEN /\ finding.scheme = "https" => finding.port = "443"
            /\ finding.scheme = "http" => finding.port = "80"
       ELSE finding.port = inUrl

C18_Witness ==
  /\ res.fn = "ParseNucleiJsonLines" /\ ~res.value.raised
  /\ Len(arg.text) = 1 /\ Len(res.value.items) = 1
  /\ DOMAIN arg.text[1].raw = {"url", "template-id"}
  /\ arg.text[1].raw["url"] = "http://b.com"
  /\ res.value.items[1].finding.scheme = "http"
  /\ res.value.items[1].finding.port = "80"


\* C19: each of the three output parsers skips what it cannot parse and
\* raises no error: on malformed XML, on lines that are no JSON, on JSON
\* values that are no object and on an info that is no object it returns the
\* findings of the well-formed entries (one per object line that can be read,
\* for the two line formats).
C19_ParsersNeverRaise ==
  res.fn \in {"ParseNmapXml", "ParseNucleiJsonLines", "ParseScanJsonLines"} =>
    /\ ~res.value.raised
    /\ res.fn = "ParseScanJsonLines" =>
         Len(res.value.items) =
           Cardinality({i \in DOMAIN arg.text : arg.text[i].json = "object"})
    /\ res.fn = "ParseNucleiJsonLines" =>
         Len(res.value.items) =
           Cardinality({i \in DOMAIN arg.text :
                          arg.text[i].json = "object" /\ arg.text[i].info # "string"})


\* a "${", then one or more characters, then the first "}" after them
C20_HasPlaceholder(chars) ==
  \E i \in DOMAIN chars, j \in DOMAIN chars :
    /\ chars[i] = "$" /\ i + 1 \in DOMAIN chars /\ chars[i + 1] = "{"
    /\ j > i + 2 /\ chars[j] = "}"
    /\ \A k \in (i + 2)..(j - 1) : chars[k] # "}"

RECURSIVE C20_NoPlaceholder(_)
C20_NoPlaceholder(value) ==
  CASE value.t = "str" -> ~C20_HasPlaceholder(value.v)
    [] value.t = "list" -> \A i \in DOMAIN value.v : C20_NoPlaceholder(value.v[i])
    [] value.t = "dict" -> \A k \in DOMAIN value.v : C20_NoPlaceholder(value.v[k])
    [] OTHER -> TRUE

\* C20: a value in which no string holds a ${...} placeholder is rendered to
\* itself, whether it is a string, a list or a mapping of any nesting, or a
\* value of another type, and whatever the record and the context hold.
C20_NoPlaceholderUnchanged ==
  (res.fn = "RenderValue" /\ C20_NoPlaceholder(arg.value)) => res.value = arg.value

C20_Witness ==
  /\ res.fn = "RenderValue"
  /\ arg.value = [t |-> "list",
                  v |-> <<[t |-> "str", v |-> <<"$", "a">>],
                          [t |-> "dict", v |-> ("k" :> [t |-> "str", v |-> <<"$", "{", "}">>])]>>]
  /\ arg.record = (<<"x">> :> "v")
  /\ res.value = arg.value


\* C21 as stated: ${path} is rendered from the finding whenever the finding
\* holds the path, from the context only when the finding does not hold it,
\* and as the empty string when neither holds it.
C21_FindingFirst ==
  res.fn = "RenderString" =>
    LET Found(m) == arg.path \in DOMAIN m \/ \E q \in DOMAIN m : IsPrefix(arg.path, q)
        Shown(m) == IF arg.path \notin DOMAIN m THEN DictVal
                    ELSE IF m[arg.path] = NoneVal THEN "" ELSE m[arg.path]
    IN res.value = IF Found(arg.record) THEN Shown(arg.record)
                   ELSE IF Found(arg.context) THEN Shown(arg.context)
                   ELSE ""

\* C21: ${path} is rendered from the finding when the finding holds a value
\* other than None at the path; otherwise (path absent, None there, or a
\* segment on the way that is not a mapping) from the context in the same
\* way; and as the empty string when neither holds such a value.
C21_FindingFirstUnlessNone ==
  res.fn = "RenderString" =>
    LET Holds(m) == \/ arg.path \in DOMAIN m /\ m[arg.path] # NoneVal
                    \/ \E q \in DOMAIN m : IsPrefix(arg.path, q)
        Shown(m) == IF arg.path \in DOMAIN m THEN m[arg.path] ELSE DictVal
    IN res.value = IF Holds(arg.record) THEN Shown(arg.record)
                   ELSE IF Holds(arg.context) THEN Shown(arg.context)
                   ELSE ""

C21_Witness ==
  /\ res.fn = "RenderString"
  /\ arg.path = <<"a", "b">>
  /\ arg.record = (<<"a">> :> "r") @@ (<<"b">> :> "r")
  /\ arg.context = (<<"a", "b">> :> "c") @@ (<<"b">> :> "c")
  /\ res.value = "c"


\* C22: one validation calls the normalization of the steps block at most
\* once and parses at most twice, the cleaned text and then the normalized one.
C22_OneRepairPass ==
  validation # Invalid("none") => work.repairs <= 1 /\ Len(work.loads) <= 2


\* C23: every validation answers by the reason code of its case:
\* empty_description for an empty cleaned text, invalid_yaml for a text that
\* does not parse (as it is or normalized), not_a_mapping for one that parses
\* to something other than a mapping, missing_steps for a mapping without a
\* steps list, steps=n for a list of n # 1 steps, and ok for exactly one step.
C23_ReasonCodes ==
  LET cleaned == CleanDescription(text)
      d1 == SafeLoad(cleaned)
      d2 == SafeLoad(NormalizeYamlSteps(cleaned))
      data == IF IsDict(d1) THEN d1 ELSE d2
      doc == IF StepsIsList(data) THEN data ELSE d2
      n == Len(doc.sitems)
  IN validation # Invalid("none") =>
       validation =
         IF cleaned = <<>> THEN Invalid("empty_description")
         ELSE IF ~data.ok THEN Invalid("invalid_yaml")
         ELSE IF data.tag # "map" THEN Invalid("not_a_mapping")
         ELSE IF ~StepsIsList(doc) THEN Invalid("missing_steps")
         ELSE IF n # 1 THEN [ok |-> FALSE, reason |-> "steps=" \o ToString(n), steps |-> n]
         ELSE [ok |-> TRUE, reason |-> "", steps |-> 1]


\* C24: the runner hands the step of an activity on (to input resolution,
\* the approval gate and the command) exactly when _validate_task_yaml answers
\* ok=true for the description of that activity.
C24_RunnerAgreesWithValidator ==
  cur.load.kind # "none" => (cur.load.kind = "step" <=> cur.valid.ok)


\* C25: every vulns.create entry ends in exactly one of three ways: it is
\* dispatched (created + 1, nothing skipped), it is skipped for the required
\* fields it still lacks after the defaults of its subtype (skipped + 1,
\* nothing created), or it aborts the dispatch (neither counted, no entry
\* after it); an abort in the asset resolution comes before any
\* classification.  So created + skipped never exceeds the number of entries
\* processed.
C25_OneTerminalOutcome ==
  /\ [](ds.counts.created + ds.counts.skipped <= ds.n)
  /\ [][(ds'.n = ds.n + 1 /\ ds'.last.type = "vulns.create") =>
          LET created == ds'.counts.created - ds.counts.created
              skipped == ds'.counts.skipped - ds.counts.skipped
          IN \/ /\ ds'.last.outcome = "created" /\ ds'.status = "ok"
                /\ created = 1 /\ skipped = 0
                /\ ds'.last.vtype # "" /\ ds'.last.missing = {}
             \/ /\ ds'.last.outcome = "skipped" /\ ds'.status = "ok"
                /\ created = 0 /\ skipped = 1
                /\ ds'.last.vtype # "" /\ ds'.last.missing # {}
                /\ \A i \in (Len(ds.calls) + 1)..Len(ds'.calls) :
                     ds'.calls[i].op = "createAsset"
             \/ /\ ds'.status # "ok" /\ ds'.last.outcome = ds'.status
                /\ created = 0 /\ skipped = 0
                /\ ds'.status = "exit" => ds'.last.vtype = ""]_vars

\* in apply mode an entry has created its asset and was then skipped for a
\* missing field, and the entry after it was dispatched
C25_Witness ==
  /\ apply /\ ds.n = 2 /\ ds.status = "ok"
  /\ ds.counts.assets_created = 1
  /\ ds.counts.skipped = 1 /\ ds.counts.created = 1
  /\ ds.last.outcome = "created"


\* C26: an assets.enrich entry without an id of its own takes the asset of
\* its name from the cache, under the raw name and then under the normalized
\* name, and asks the remote search only when the cache holds neither.  With
\* no asset resolved (or no name) the entry is skipped: skipped + 1, no
\* mutation sent, and the dispatch goes on; otherwise the asset resolved is
\* the one the update is sent for.
C26_EnrichByName ==
  [][(ds'.n = ds.n + 1 /\ ds'.last.type = "assets.enrich" /\ ds'.last.how # "payload") =>
       LET name == ds'.last.name
           cache == AssetsByName(ds.context)
           norm == NormalizeAssetKey(name)
           inCache == name # "" /\ (name \in DOMAIN cache \/ norm \in DOMAIN cache)
           cached == IF name \in DOMAIN cache THEN cache[name] ELSE cache[norm]
           skipped == ds'.last.outcome = "skipped"
           sent == SubSeq(ds'.calls, Len(ds.calls) + 1, Len(ds'.calls))
           SentFor(id) ==
             /\ ds'.last.outcome \in {"asset", "error"}
             /\ ~apply => sent = <<>>
             /\ apply => /\ Len(sent) = 1 /\ sent[1].op = "updateAsset"
                         /\ sent[1].input.id = id
       IN /\ name = "" => skipped
          /\ inCache => IF Empty(cached) THEN skipped ELSE SentFor(cached)
          /\ (name # "" /\ ~inCache) =>
               \/ skipped
               \/ name \in DOMAIN ds.catalog /\ SentFor(ds.catalog[name])
          /\ skipped => /\ ds'.counts = Bump(ds.counts, "skipped")
                        /\ sent = <<>>
                        /\ ds'.status = "ok"]_vars

\* an entry whose name is in the cache under its normalized form only has
\* been sent as an update of that asset, after an entry skipped because
\* neither the cache nor the search knew its name
C26_Witness ==
  /\ apply /\ ds.n = 2 /\ ds.counts.skipped = 1
  /\ ds.last.type = "assets.enrich" /\ ds.last.outcome = "asset"
  /\ ds.last.name = "https://a.com/x"
  /\ "https://a.com/x" \notin DOMAIN AssetsByName(ds.context)
  /\ ds.calls[Len(ds.calls)].input.id = AssetsByName(ds.context)["a.com"]


\* C27: as long as one process alone approves commands, the store holds,
\* after each of its approvals, every command it has approved so far, each
\* under its own key; no approval of a single writer is lost.  (That two
\* writers can lose one is the state of C27_Witness.)
C27_SingleWriterKeepsAll ==
  \A p \in Writers, q \in Writers :
    (writers # <<>> /\ p # q /\ writers[q] = IdleWriter /\ writers[p].pc = "idle") =>
      /\ DOMAIN store = {CommandKey(writers[p].done[i]) : i \in DOMAIN writers[p].done}
      /\ \A i \in DOMAIN writers[p].done :
           store[CommandKey(writers[p].done[i])].cmd = writers[p].done[i]

\* two processes have each approved one command, a different one, and the
\* store holds the approval of the second and not that of the first
C27_Witness ==
  /\ writers # <<>>
  /\ writers[1].pc = "idle" /\ writers[1].done = <<"scan">>
  /\ writers[2].pc = "idle" /\ writers[2].done = <<"scan 7">>
  /\ DOMAIN store = {CommandKey("scan 7")}
  /\ store[CommandKey("scan 7")].approved_at = 1


\* C28: an activity whose step declares no inputs.assets works on the
\* by_name cache of the run, so it sees every entry written by the
\* activities before it, and what its dispatch writes (the name and the
\* normalized name of every asset it resolves by create_if_missing, the
\* dry-run placeholder included) stays in that cache; an activity that
\* declares inputs.assets works on a cache fetched for it and leaves the
\* cache of the run as it was.
C28_CacheSharedAcrossActivities ==
  /\ []((pc \in {"gate", "exec", "dispatch"}) =>
          AssetsByName(cur.context) = IF cur.step.inputs_assets THEN FetchedCache(catalog)
                                      ELSE base_cache)
  /\ [][(pc = "dispatch" /\ cur.step.inputs_assets) => base_cache' = base_cache]_vars
  /\ [][(pc = "dispatch" /\ ~cur.step.inputs_assets /\ cur.step.actions # <<>>) =>
          /\ DOMAIN base_cache \subseteq DOMAIN base_cache'
          /\ \A i \in DOMAIN calls' :
               (pc' = "next" /\ calls'[i].op = "createAsset"
                  /\ calls'[i].by = "vulns.create") =>
                 /\ calls'[i].input.name \in DOMAIN base_cache'
                 /\ NormalizeAssetKey(calls'[i].input.name) \in DOMAIN base_cache'
          /\ (dryrun /\ pc' = "next" /\ cur.step.actions = <<VulnByCreate>>) =>
               \A i \in DOMAIN cur.items :
                 FindingPath("host") \in DOMAIN cur.items[i] =>
                   cur.items[i][FindingPath("host")] \in DOMAIN base_cache']_vars

\* in a dry run the second activity, whose vulns.create takes its assetId from
\* the cache, is dispatched with the placeholder that the first activity
\* wrote for an asset unknown to the catalog
C28_Witness ==
  /\ dryrun /\ acts = 2 /\ pc = "next" /\ outcome.kind = "executed"
  /\ cur.step.actions = <<VulnByLookup>> /\ ~cur.step.inputs_assets
  /\ catalog = EmptyMap
  /\ "a.com" \in DOMAIN base_cache /\ base_cache["a.com"] = DryRunId


\* the dispatcher state after the entries of planned, all of them applied
RECURSIVE C29_After(_, _, _, _)
C29_After(planned, d, do_apply, env) ==
  IF planned = <<>> THEN d
  ELSE C29_After(Tail(planned), ApplyEntry(d, Head(planned), do_apply, env), do_apply, env)

\* C29: nothing is undone and nothing follows an abort.  No step of the run
\* removes an executed command, a stored approval or an asset of the remote
\* catalog, lowers the count of executed steps, or takes back a mutation sent
\* for the activity in hand; no step is taken once the run has aborted; and a
\* dispatch that aborts leaves the remote side exactly as it was after the
\* entry that aborted, the entries before it applied and none after it.
C29_AbortKeepsWhatWasDone ==
  /\ [][pc \notin {"abort", "crash"}]_vars
  /\ [][/\ ran \subseteq ran'
        /\ tasks_executed' >= tasks_executed
        /\ \A k \in DOMAIN store : k \in DOMAIN store' /\ store'[k] = store[k]
        /\ DOMAIN catalog \subseteq DOMAIN catalog'
        /\ pc # "next" => /\ Len(calls) <= Len(calls')
                          /\ SubSeq(calls', 1, Len(calls)) = calls]_vars
  /\ [][(pc = "dispatch" /\ pc' \in {"abort", "crash"}) =>
          LET planned == ActionsFromParsed(cur.step.actions, cur.items)
              d0 == [counts |-> Counts0, context |-> cur.context, calls |-> <<>>,
                     catalog |-> catalog, status |-> "ok", n |-> 0, last |-> NoLast]
          IN \E env \in Envs, j \in DOMAIN planned :
               LET before == C29_After(SubSeq(planned, 1, j - 1), d0, ~dryrun, env)
                   at == ApplyEntry(before, planned[j], ~dryrun, env)
               IN /\ before.status = "ok" /\ at.status # "ok"
                  /\ calls' = at.calls /\ catalog' = at.catalog]_vars

\* the run has ended in its second activity, at an entry of the dispatch that
\* follows an entry which created an asset: the command of the first
\* activity, its step count and the asset created are all still there
C29_Witness ==
  /\ pc \in {"abort", "crash"} /\ acts = 2 /\ cur.returncode = 0
  /\ tasks_executed = 1 /\ \E r \in ran : r.act = 1
  /\ \E i \in DOMAIN calls : calls[i].op = "createAsset"
  /\ "https://a.com/x" \in DOMAIN catalog

\* C30: the mode of the run is read by the dispatcher only.  Whatever the
\* mode, a step with inputs.assets has its export file in the context once
\* it is set up; the gate lets an approved command through, stores the
\* approval of a command that is approved now (automatically or by the
\* answer yes) and keeps everything it held, and skips a declined one; the
\* command that reaches the execution is run, with its approval in the store
\* before it starts and after it ends, failed or not; and in a dry run the
\* remote catalog is never changed.
C30_DryRunOnlySparesRemote ==
  /\ [][(pc = "step" /\ pc' \in {"gate", "next"} /\ cur'.step.inputs_assets) =>
          Get(cur'.context, Path2("assets", "file")) = ExportFile]_vars
  /\ [][pc = "gate" =>
          IF IsCommandApproved(store, cur.cmd)
          THEN pc' = "exec" /\ store' = store
          ELSE IF auto_approve \/ cur'.confirm = "yes"
          THEN /\ pc' = "exec"
               /\ store' = ApproveCommand(store, cur.cmd, acts)
               /\ IsCommandApproved(store', cur.cmd)
          ELSE pc' = "next" /\ store' = store /\ ran' = ran]_vars
  /\ [][pc = "exec" =>
          /\ IsCommandApproved(store, cur.cmd)
          /\ store' = store
          /\ ran' = ran \cup {[act |-> acts, cmd |-> cur.cmd]}
          /\ (pc' = "abort" /\ outcome'.kind = "failed") <=> cur'.returncode # 0]_vars
  /\ [][dryrun => catalog' = catalog]_vars

\* a dry run that started with no approval stored has approved its command,
\* written the export file, run the command and seen it fail: the approval
\* is still in the store and nothing was sent to the remote side
C30_Witness ==
  /\ dryrun /\ pc = "abort" /\ outcome.kind = "failed" /\ cur.returncode = 1
  /\ cur.step.inputs_assets /\ Get(cur.context, Path2("assets", "file")) = ExportFile
  /\ IsCommandApproved(store, cur.cmd) /\ store[CommandKey(cur.cmd)].approved_at = acts
  /\ [act |-> acts, cmd |-> cur.cmd] \in ran
  /\ calls = <<>>

====
